---- MODULE Spec2Model ----
(***************************************************************************)
(* TripMaker authentication backend: the users-file access layer           *)
(* (ensureUsersFile / readUsers / writeUsers and the module-level          *)
(* writeQueue promise chain) and the four request handlers that use it     *)
(* (POST /register, POST /login, GET /profile/:id, PUT /profile/:id).      *)
(*                                                                         *)
(* Every `await` of the JavaScript source is a scheduling point: the code  *)
(* between two awaits runs atomically on the event loop, so each action    *)
(* below is one such run-to-next-await segment of one request.  File       *)
(* operations take effect when their continuation runs, except the         *)
(* collection write of writeUsers, which is split into the truncating      *)
(* open and the data write because other requests can read the file        *)
(* between the two.                                                        *)
(*                                                                         *)
(* The credential functions (hashPassword / verifyPassword) and the token  *)
(* functions (generateToken, optionalAuth, requireAuth) are operators on   *)
(* strings and records; SpecCodec and SpecAuth apply them on their own.    *)
(***************************************************************************)
EXTENDS Integers, Sequences, FiniteSets, TLC

\* ------------------------------------------------------------------------
\* Bounds of the model
\* ------------------------------------------------------------------------
\* Number of HTTP requests handled (each handles one request, concurrently).
NumProcs == 2

Procs == 1..NumProcs

\* ------------------------------------------------------------------------
\* Configuration
\* ------------------------------------------------------------------------
DEFAULT_USER_DB_PATH == "data/users.json"

TMP_USER_DB_PATH == "tmp/tripmaker-users.json"

Paths == {DEFAULT_USER_DB_PATH, TMP_USER_DB_PATH}

ProfileFields == {"phone", "country", "language", "currencyType"}

DEFAULT_PROFILE ==
  [phone |-> "", country |-> "", language |-> "en", currencyType |-> "USD"]

\* ------------------------------------------------------------------------
\* Strings that the code transforms are sequences of one-character strings.
\* ------------------------------------------------------------------------
EmailA == <<"a", "@", "x">>

EmailB == <<"b", "@", "x">>

EmailC == <<"c", "@", "x">>

\* " A@X " : the same address as EmailA before normalisation
EmailARaw == <<" ", "A", "@", "X", " ">>

LowerChar(c) ==
  CASE c = "A" -> "a"
    [] c = "B" -> "b"
    [] c = "C" -> "c"
    [] c = "X" -> "x"
    [] OTHER -> c

toLowerCase(s) == [i \in 1..Len(s) |-> LowerChar(s[i])]

RECURSIVE trimStart(_)
trimStart(s) ==
  IF s # <<>> /\ Head(s) = " " THEN trimStart(Tail(s)) ELSE s

RECURSIVE trimEnd(_)
trimEnd(s) ==
  IF s # <<>> /\ s[Len(s)] = " " THEN trimEnd(SubSeq(s, 1, Len(s) - 1)) ELSE s

trim(s) == trimEnd(trimStart(s))

\* A normalisation that trims and keeps the case.
normalizeEmail_TrimOnly(email) == trim(email)

normalizeEmail(email) == toLowerCase(trim(email))

\* ------------------------------------------------------------------------
\* Passwords
\* ------------------------------------------------------------------------
\* Length in bytes of a derived key (the source derives 64 bytes).
PASSWORD_KEYLEN == 2

\* crypto.randomBytes(PASSWORD_SALT_BYTES).toString("hex"): a one-byte salt
Salts == {<<"5", "a">>}

HexDigits ==
  <<"0", "1", "2", "3", "4", "5", "6", "7", "8", "9", "a", "b", "c", "d", "e", "f">>

\* the value of a hex digit, -1 for any other character
HexValue(c) ==
  IF \E i \in 1..16 : HexDigits[i] = c
  THEN (CHOOSE i \in 1..16 : HexDigits[i] = c) - 1
  ELSE -1

\* buffer.toString("hex")
toHex(bytes) ==
  [i \in 1..(2 * Len(bytes)) |->
     LET b == bytes[(i + 1) \div 2]
     IN HexDigits[(IF i % 2 = 1 THEN b \div 16 ELSE b % 16) + 1]]

\* Buffer.from(text, "hex"): decoding stops at the first pair that is not two
\* hex digits; a trailing single character is dropped
RECURSIVE fromHex(_)
fromHex(text) ==
  IF Len(text) < 2 \/ HexValue(text[1]) < 0 \/ HexValue(text[2]) < 0
  THEN <<>>
  ELSE <<16 * HexValue(text[1]) + HexValue(text[2])>> \o fromHex(SubSeq(text, 3, Len(text)))

\* The passwords of the model; a password is known to scrypt by its place here.
Plaintexts == <<"", "secret1", "secret2", "wrong">>

PasswordCode(password) ==
  CHOOSE i \in 1..Len(Plaintexts) : Plaintexts[i] = password

RECURSIVE StringCode(_)
StringCode(s) ==
  IF s = <<>> THEN 0
  ELSE (19 * StringCode(SubSeq(s, 1, Len(s) - 1))
        + (IF HexValue(s[Len(s)]) >= 0 THEN HexValue(s[Len(s)]) + 1 ELSE 17)) % 251

\* scrypt as a collision-free key derivation: on the passwords and salts of the
\* model, different (password, salt) give different keys
scryptSync(password, salt, keylen) ==
  [i \in 1..keylen |-> (31 * PasswordCode(password) + StringCode(salt) + 7 * i) % 256]

\* A hash stored without its salt.
hashPassword_SaltDropped(password, salt) ==
  <<":">> \o toHex(scryptSync(password, salt, PASSWORD_KEYLEN))

hashPassword(password, salt) ==
  salt \o <<":">> \o toHex(scryptSync(password, salt, PASSWORD_KEYLEN))

\* undefined / null
Undefined == <<"undefined">>

\* How a call completes: with a value, or by throwing.
Completion(value, throws) == [value |-> value, throws |-> throws]

includes(s, c) == \E i \in 1..Len(s) : s[i] = c

RECURSIVE split(_, _)
split(s, c) ==
  IF ~includes(s, c) THEN <<s>>
  ELSE LET k == CHOOSE i \in 1..Len(s) : s[i] = c /\ \A j \in 1..(i - 1) : s[j] # c
       IN <<SubSeq(s, 1, k - 1)>> \o split(SubSeq(s, k + 1, Len(s)), c)

\* crypto.timingSafeEqual throws on buffers of different lengths
timingSafeEqual(a, b) ==
  IF Len(a) # Len(b) THEN Completion(FALSE, "RangeError") ELSE Completion(a = b, "none")

\* A verification that compares without looking at the lengths first.
verifyPassword_NoLengthCheck(password, stored) ==
  IF stored = Undefined \/ stored = <<>> \/ ~includes(stored, ":")
  THEN Completion(FALSE, "none")
  ELSE LET salt == split(stored, ":")[1]
           hash == split(stored, ":")[2]
       IN IF salt = <<>> \/ hash = <<>>
          THEN Completion(FALSE, "none")
          ELSE timingSafeEqual(fromHex(hash), scryptSync(password, salt, PASSWORD_KEYLEN))

verifyPassword(password, stored) ==
  IF stored = Undefined \/ stored = <<>> \/ ~includes(stored, ":")
  THEN Completion(FALSE, "none")
  ELSE LET salt == split(stored, ":")[1]
           hash == split(stored, ":")[2]
       IN IF salt = <<>> \/ hash = <<>>
          THEN Completion(FALSE, "none")
          ELSE LET derivedKey == scryptSync(password, salt, PASSWORD_KEYLEN)
                   storedBuffer == fromHex(hash)
               IN IF Len(storedBuffer) # Len(derivedKey)
                  THEN Completion(FALSE, "none")
                  ELSE timingSafeEqual(storedBuffer, derivedKey)

\* ------------------------------------------------------------------------
\* File contents and JSON
\* ------------------------------------------------------------------------
Absent == [kind |-> "absent", value |-> <<>>]

\* a file that was opened for writing (truncated) and holds no data yet
Blank == [kind |-> "blank", value |-> <<>>]

\* a file holding a proper prefix of a JSON text: JSON.parse throws on it
Garbage == [kind |-> "garbage", value |-> <<>>]

\* a file holding a JSON text that is not an array, such as {} or "x":
\* JSON.parse returns a value for which Array.isArray is false
NonArray == [kind |-> "nonarray", value |-> <<>>]

JSONstringify(users) == [kind |-> "json", value |-> users]

\* the result of readUsers on raw content: the array, or [] for blank content
ParseUsers(raw) == IF raw.kind = "json" THEN raw.value ELSE <<>>

ParseThrows(raw) == raw.kind = "garbage"

isReadonlyError(code) == code = "EROFS" \/ code = "EPERM"

\* ------------------------------------------------------------------------
\* User records and requests
\* ------------------------------------------------------------------------
NewUser(id, email, password, salt, now) ==
  [id |-> id,
   email |-> email,
   passwordHash |-> hashPassword(password, salt),
   profile |-> DEFAULT_PROFILE,
   createdAt |-> now]

\* Two accounts registered by an earlier run of the server.
User1 == NewUser(1, EmailA, "secret1", <<"5", "a">>, 0)

User2 == NewUser(2, EmailB, "secret1", <<"5", "a">>, 0)

FirstFreshId == 3

UserIds == {1, 2}

NoBodyValues ==
  [email |-> <<>>, phone |-> "", country |-> "", language |-> "",
   currencyType |-> ""]

\* A request body: `fields` are the properties the body has (hasOwnProperty).
NoBody == [fields |-> {}, val |-> NoBodyValues]

EmailBody(e) == [fields |-> {"email"}, val |-> [NoBodyValues EXCEPT !.email = e]]

FieldBody(f, v) == [fields |-> {f}, val |-> [NoBodyValues EXCEPT ![f] = v]]

Bodies ==
  {NoBody, EmailBody(EmailA), EmailBody(EmailC), EmailBody(<<" ">>),
   FieldBody("phone", "555"), FieldBody("country", "France"),
   FieldBody("language", "es"), FieldBody("currencyType", "EUR")}

Req(op, email, password, id, body) ==
  [op |-> op, email |-> email, password |-> password, id |-> id, body |-> body]

NoReq == Req("none", <<>>, "", 0, NoBody)

RegisterReqs ==
  {Req("register", e, "secret1", 0, NoBody) : e \in {EmailA, EmailARaw, EmailC, <<>>}}
  \cup {Req("register", EmailC, "", 0, NoBody)}

LoginReqs ==
  {Req("login", e, password, 0, NoBody) : e \in {EmailARaw, EmailC}, password \in {"secret1", "wrong"}}

GetProfileReqs == {Req("getProfile", <<>>, "", id, NoBody) : id \in UserIds}

UpdateProfileReqs ==
  {Req("updateProfile", <<>>, "", id, b) : id \in UserIds, b \in Bodies}

Requests == RegisterReqs \cup LoginReqs \cup GetProfileReqs \cup UpdateProfileReqs

\* ------------------------------------------------------------------------
\* Pure parts of the handlers
\* ------------------------------------------------------------------------
hasOwnProperty(body, f) == f \in body.fields

\* users.find(pred) over the indices that satisfy pred: the first one, 0 when
\* there is none
FirstIndex(hits) ==
  IF hits = {} THEN 0 ELSE CHOOSE i \in hits : \A j \in hits : i <= j

\* A find that never matches: the duplicate check of /register is lost.
FindByEmail_NeverFound(users, email) == 0

FindByEmail(users, email) ==
  FirstIndex({i \in 1..Len(users) : users[i].email = email})

\* A lookup that takes the first record, whatever its id.
FindById_AnyRecord(users, id) == FirstIndex({i \in 1..Len(users) : TRUE})

FindById(users, id) == FirstIndex({i \in 1..Len(users) : users[i].id = id})

\* A lookup of the email that does not leave the target out.
FindOtherByEmail_IncludesTarget(users, email, id) ==
  FirstIndex({i \in 1..Len(users) : users[i].email = email})

FindOtherByEmail(users, email, id) ==
  FirstIndex({i \in 1..Len(users) : users[i].email = email /\ users[i].id # id})

\* A merge in which an empty stored value gives way to the default.
ensureProfile_DefaultsWin(user) ==
  LET cur == IF "profile" \in DOMAIN user THEN user.profile ELSE <<>>
  IN [f \in ProfileFields |->
        IF f \in DOMAIN cur /\ cur[f] # "" THEN cur[f] ELSE DEFAULT_PROFILE[f]]

ensureProfile(user) ==
  LET cur == IF "profile" \in DOMAIN user THEN user.profile ELSE <<>>
  IN [f \in ProfileFields |->
        IF f \in DOMAIN cur THEN cur[f] ELSE DEFAULT_PROFILE[f]]

buildProfileResponse(user) ==
  LET profile == ensureProfile(user)
  IN [id |-> user.id,
      email |-> user.email,
      phone |-> profile.phone,
      country |-> profile.country,
      language |-> profile.language,
      currencyType |-> profile.currencyType,
      createdAt |-> user.createdAt]

\* The outcome of a handler's synchronous part that follows `await readUsers()`:
\* status is the HTTP status decided already (0: none yet, a write follows),
\* users is the handler's array after its changes.
Outcome(status, users) == [status |-> status, users |-> users]

\* A registration that skips the lookup of the email.
RegisterAfterRead_NoCheck(users, email, password, id, salt, now) ==
  Outcome(0, Append(users, NewUser(id, email, password, salt, now)))

RegisterAfterRead(users, email, password, id, salt, now) ==
  IF FindByEmail(users, email) # 0
  THEN Outcome(409, users)
  ELSE Outcome(0, Append(users, NewUser(id, email, password, salt, now)))

\* A login that answers "not found" for an unknown email.
LoginAfterRead_RevealsFactor(users, email, password) ==
  LET i == FindByEmail(users, email)
  IN IF i = 0 THEN Outcome(404, users)
     ELSE IF verifyPassword(password, users[i].passwordHash).throws # "none"
     THEN Outcome(500, users)
     ELSE IF ~verifyPassword(password, users[i].passwordHash).value
     THEN Outcome(401, users)
     ELSE Outcome(200, users)

LoginAfterRead(users, email, password) ==
  LET i == FindByEmail(users, email)
      verified == verifyPassword(password, users[i].passwordHash)
  IN IF i # 0 /\ verified.throws # "none"
     THEN Outcome(500, users)
     ELSE IF i = 0 \/ ~verified.value
     THEN Outcome(401, users)
     ELSE Outcome(200, users)

GetProfileAfterRead(users, userId) ==
  LET i == FindById(users, userId)
  IN IF i = 0
     THEN Outcome(404, users)
     ELSE Outcome(200, [users EXCEPT ![i].profile = ensureProfile(users[i])])

\* An update that takes every profile field from the body.
ApplyProfileFields_Replaces(profile, body) ==
  [f \in ProfileFields |-> body.val[f]]

ApplyProfileFields(profile, body) ==
  [f \in ProfileFields |->
     IF hasOwnProperty(body, f) THEN body.val[f] ELSE profile[f]]

\* An update that stamps the record anew.
UpdateProfileAfterRead_Restamped(users, userId, body) ==
  LET i == FindById(users, userId)
  IN IF i = 0 THEN Outcome(404, users)
     ELSE Outcome(0,
            [users EXCEPT
               ![i].profile = ApplyProfileFields(ensureProfile(users[i]), body),
               ![i].createdAt = @ + 1])

UpdateProfileAfterRead(users, userId, body) ==
  LET i == FindById(users, userId)
      normalizedEmail == normalizeEmail(body.val.email)
      withEmail ==
        IF hasOwnProperty(body, "email")
        THEN [users EXCEPT ![i].email = normalizedEmail]
        ELSE users
  IN IF i = 0 THEN Outcome(404, users)
     ELSE IF hasOwnProperty(body, "email") /\ normalizedEmail = <<>>
     THEN Outcome(400, users)
     ELSE IF hasOwnProperty(body, "email")
             /\ FindOtherByEmail(users, normalizedEmail, userId) # 0
     THEN Outcome(409, users)
     ELSE Outcome(0,
            [withEmail EXCEPT
               ![i].profile = ApplyProfileFields(ensureProfile(users[i]), body)])

\* ------------------------------------------------------------------------
\* Bearer tokens
\* ------------------------------------------------------------------------
JWT_SECRET == "secret of this process"

\* Lifetime of a token in clock ticks (the source's default is "7d").
JWT_EXPIRES_IN == 2

\* req.user when no middleware has set it
NoUser == [id |-> 0, email |-> <<>>, iat |-> 0, exp |-> 0]

\* The signature of a payload under a key, as an ideal MAC: it validates under
\* the same key, for the same payload, and for nothing else.
Signature(key, payload) == [key |-> key, payload |-> payload]

\* A compact token "header.payload.signature"; parts is 3 when it has this form.
Token(payload, signature, parts) ==
  [payload |-> payload, signature |-> signature, parts |-> parts]

NoToken == Token(NoUser, Signature("", NoUser), 0)

\* jwt.sign(payload, secret, {expiresIn}) at time now
jwtSign(payload, secret, expiresIn, now) ==
  LET claims == [id |-> payload.id, email |-> payload.email,
                 iat |-> now, exp |-> now + expiresIn]
  IN Token(claims, Signature(secret, claims), 3)

generateToken(user, now) ==
  jwtSign([id |-> user.id, email |-> user.email], JWT_SECRET, JWT_EXPIRES_IN, now)

\* A verification that looks at the expiry only.
jwtVerify_NoSignatureCheck(token, secret, now) ==
  IF token.parts # 3
  THEN Completion(NoUser, "JsonWebTokenError")
  ELSE IF now >= token.payload.exp
  THEN Completion(NoUser, "TokenExpiredError")
  ELSE Completion(token.payload, "none")

\* jwt.verify(token, secret) at time now: the form, then the signature, then
\* the expiry
jwtVerify(token, secret, now) ==
  IF token.parts # 3
  THEN Completion(NoUser, "JsonWebTokenError")
  ELSE IF token.signature # Signature(secret, token.payload)
  THEN Completion(NoUser, "JsonWebTokenError")
  ELSE IF now >= token.payload.exp
  THEN Completion(NoUser, "TokenExpiredError")
  ELSE Completion(token.payload, "none")

\* The Authorization header: absent, a scheme with no token after the blank,
\* or "Bearer <token>".
Header(form, token) == [form |-> form, token |-> token]

NoHeader == Header("absent", NoToken)

\* What a middleware did: req.user, and the response it sent (status 0 and no
\* error when it called next()).
AuthResult(user, status, error) == [user |-> user, status |-> status, error |-> error]

\* A middleware that turns a request with an unusable token away.
optionalAuth_Rejects(header, now) ==
  IF header.form = "absent" \/ header.form = "scheme only"
  THEN AuthResult(NoUser, 0, "")
  ELSE LET decoded == jwtVerify(header.token, JWT_SECRET, now)
       IN IF decoded.throws = "none"
          THEN AuthResult(decoded.value, 0, "")
          ELSE AuthResult(NoUser, 401, "Invalid or expired token.")

optionalAuth(header, now) ==
  IF header.form = "absent" \/ header.form = "scheme only"
  THEN AuthResult(NoUser, 0, "")
  ELSE LET decoded == jwtVerify(header.token, JWT_SECRET, now)
       IN IF decoded.throws = "none"
          THEN AuthResult(decoded.value, 0, "")
          ELSE AuthResult(NoUser, 0, "")

requireAuth(header, now) ==
  IF header.form = "absent" \/ header.form = "scheme only"
  THEN AuthResult(NoUser, 401, "Authorization token required.")
  ELSE LET decoded == jwtVerify(header.token, JWT_SECRET, now)
       IN IF decoded.throws = "none"
          THEN AuthResult(decoded.value, 0, "")
          ELSE AuthResult(NoUser, 401, "Invalid or expired token.")

\* ------------------------------------------------------------------------
\* Calls of the module's functions on their own
\* ------------------------------------------------------------------------
\* No hashPassword / verifyPassword call yet.
NoCall ==
  [state |-> "none", plaintext |-> "", stored |-> Undefined, damage |-> "intact",
   guess |-> "", result |-> Completion(FALSE, "none")]

\* No token issued yet, at time 0.
NoAuth ==
  [state |-> "none", token |-> NoToken, issuedFor |-> NoUser, tamper |-> "none",
   middleware |-> "", header |-> NoHeader, clock |-> 0,
   result |-> AuthResult(NoUser, 0, "")]

\* No response received yet.
NoClient == [step |-> 0, responses |-> <<>>]

\* ------------------------------------------------------------------------
\* State
\* ------------------------------------------------------------------------
VARIABLES
  usersFilePath,  \* the module-level active path
  writeQueue,     \* the promise chain: one entry per writeUsers call, in order
  disk,           \* content of the file at each path
  dirExists,      \* whether the directory of each path exists
  fsErr,          \* the error code with which writes under each path fail, or "ok"
  procs,          \* the requests in flight: position and locals of each handler
  idsIssued,      \* number of crypto.randomUUID() values handed out
  pw,             \* a call of hashPassword / verifyPassword on its own
  auth,           \* a bearer token, the clock and a pass through the auth middleware
  client          \* a client that calls one request after the other: its responses

\* the state of the file store and of the requests in flight
serverVars == <<usersFilePath, writeQueue, disk, dirExists, fsErr, procs, idsIssued>>

vars ==
  <<usersFilePath, writeQueue, disk, dirExists, fsErr, procs, idsIssued, pw, auth, client>>

FsFaults == {"ok", "EROFS", "EPERM", "EACCES"}

InitialFiles ==
  {Absent, JSONstringify(<<>>), JSONstringify(<<User1>>),
   JSONstringify(<<User1, User2>>)}

IdleProc ==
  [pc |-> "idle", req |-> NoReq, users |-> <<>>, readResult |-> <<>>,
   status |-> 0, error |-> "none", currentPath |-> "", caller |-> "",
   awaited |-> 0, job |-> 0, ioPath |-> "", inCatch |-> FALSE,
   createdId |-> 0, saved |-> <<>>]

Init ==
  /\ usersFilePath = DEFAULT_USER_DB_PATH
  /\ writeQueue = <<>>
  /\ \E fault \in FsFaults :
       fsErr = [p \in Paths |-> IF p = DEFAULT_USER_DB_PATH THEN fault ELSE "ok"]
  /\ \E d \in BOOLEAN :
       dirExists = [p \in Paths |-> IF p = DEFAULT_USER_DB_PATH THEN d ELSE TRUE]
  /\ \E f \in InitialFiles :
       /\ f # Absent => dirExists[DEFAULT_USER_DB_PATH]
       /\ disk = [p \in Paths |-> IF p = DEFAULT_USER_DB_PATH THEN f ELSE Absent]
  /\ procs = [p \in Procs |-> IdleProc]
  /\ idsIssued = 0
  /\ pw = NoCall
  /\ auth = NoAuth
  /\ client = NoClient

\* The accessor returns the configured path instead of the active one.
getUsersFilePath_Configured == DEFAULT_USER_DB_PATH

getUsersFilePath == usersFilePath

\* ------------------------------------------------------------------------
\* The promise chain
\* ------------------------------------------------------------------------
\* A promise that never settles.
Promise_StaysPending(state, error) == [state |-> "pending", error |-> error]

Promise(state, error) == [state |-> state, error |-> error]

\* writeQueue as a promise: index 0 is the initial Promise.resolve()
PromiseAt(i) == IF i = 0 THEN Promise("fulfilled", "none") ELSE writeQueue[i]

\* A chain that does not wait: `.then` runs its callback at once.
Settled_NoWait(i) == TRUE

Settled(i) == PromiseAt(i).state \in {"fulfilled", "rejected"}

\* A logical clock for new Date(): the number of requests that have arrived.
Now == Cardinality({q \in Procs : procs[q].pc # "idle"})

\* The response is sent: the handler's locals are dead.
Finish(me, status, error) ==
  [me EXCEPT !.pc = "done", !.status = status, !.error = error,
             !.users = <<>>, !.currentPath = "", !.caller = "",
             !.ioPath = "", !.inCatch = FALSE]

\* The synchronous start of ensureUsersFile(): currentPath is captured.
CallEnsure(me, path, caller) ==
  [me EXCEPT !.pc = "ens_mkdir", !.currentPath = path, !.caller = caller]

\* ensureUsersFile() resolved, and the store goes back to the configured path
\* for its next access.
EnsureResolved_ResetsPath(p) ==
  LET me == procs[p] IN
  /\ usersFilePath' = DEFAULT_USER_DB_PATH
  /\ CASE me.caller = "readUsers" ->
            /\ procs' = [procs EXCEPT ![p] =
                 [me EXCEPT !.pc = "rd_file", !.ioPath = getUsersFilePath,
                            !.currentPath = "", !.caller = ""]]
            /\ writeQueue' = writeQueue
       [] me.caller = "writeUsers" ->
            /\ writeQueue' = Append(writeQueue, Promise("pending", "none"))
            /\ procs' = [procs EXCEPT ![p] =
                 [me EXCEPT !.pc = "job_wait", !.job = Len(writeQueue) + 1,
                            !.currentPath = "", !.caller = ""]]
       [] me.caller = "catch" ->
            /\ procs' = [procs EXCEPT ![p] =
                 [me EXCEPT !.pc = "job_open", !.ioPath = getUsersFilePath,
                            !.inCatch = TRUE, !.currentPath = "", !.caller = ""]]
            /\ writeQueue' = writeQueue

\* ensureUsersFile() resolved: the awaiting caller continues to its next await.
EnsureResolved(p) ==
  LET me == procs[p] IN
  /\ usersFilePath' = usersFilePath
  /\ CASE me.caller = "readUsers" ->
            /\ procs' = [procs EXCEPT ![p] =
                 [me EXCEPT !.pc = "rd_file", !.ioPath = getUsersFilePath,
                            !.currentPath = "", !.caller = ""]]
            /\ writeQueue' = writeQueue
       [] me.caller = "writeUsers" ->
            /\ writeQueue' = Append(writeQueue, Promise("pending", "none"))
            /\ procs' = [procs EXCEPT ![p] =
                 [me EXCEPT !.pc = "job_wait", !.job = Len(writeQueue) + 1,
                            !.currentPath = "", !.caller = ""]]
       [] me.caller = "catch" ->
            /\ procs' = [procs EXCEPT ![p] =
                 [me EXCEPT !.pc = "job_open", !.ioPath = getUsersFilePath,
                            !.inCatch = TRUE, !.currentPath = "", !.caller = ""]]
            /\ writeQueue' = writeQueue

\* The rejection of the request's queued write, which the handler awaits.
RejectJob(p, error) ==
  /\ writeQueue' = [writeQueue EXCEPT ![procs[p].job] = Promise("rejected", error)]
  /\ procs' = [procs EXCEPT ![p] = Finish(procs[p], 500, error)]

\* A catch block that relocates on every read-only error, also when the path
\* that failed is the scratch path.
EnsureCatch_AlwaysRetry(p, code) ==
  LET me == procs[p] IN
  IF isReadonlyError(code)
  THEN /\ usersFilePath' = TMP_USER_DB_PATH
       /\ procs' = [procs EXCEPT ![p] = CallEnsure(me, TMP_USER_DB_PATH, me.caller)]
       /\ writeQueue' = writeQueue
  ELSE /\ usersFilePath' = usersFilePath
       /\ IF me.caller = "catch"
          THEN RejectJob(p, code)
          ELSE /\ procs' = [procs EXCEPT ![p] = Finish(me, 500, code)]
               /\ writeQueue' = writeQueue

\* The catch block of ensureUsersFile on an error with this code.
EnsureCatch(p, code) ==
  LET me == procs[p] IN
  IF isReadonlyError(code) /\ me.currentPath # TMP_USER_DB_PATH
  THEN /\ usersFilePath' = TMP_USER_DB_PATH
       /\ procs' = [procs EXCEPT ![p] = CallEnsure(me, TMP_USER_DB_PATH, me.caller)]
       /\ writeQueue' = writeQueue
  ELSE /\ usersFilePath' = usersFilePath
       /\ IF me.caller = "catch"
          THEN RejectJob(p, code)
          ELSE /\ procs' = [procs EXCEPT ![p] = Finish(me, 500, code)]
               /\ writeQueue' = writeQueue

\* The error of a write (mkdir, writeFile) under a path, "ok" when it succeeds.
WriteError(path) == IF ~dirExists[path] THEN "ENOENT" ELSE fsErr[path]

\* ------------------------------------------------------------------------
\* Actions: one per run-to-next-await segment
\* ------------------------------------------------------------------------
NeedsCredentials(op) == op \in {"register", "login"}

\* A request out of reqs arrives: the handler runs up to `await writeQueue` in
\* readUsers.  Requests are numbered in arrival order.
BeginFrom(p, reqs) ==
  /\ procs[p].pc = "idle"
  /\ \A q \in Procs : q < p => procs[q].pc # "idle"
  /\ \E r \in reqs :
       LET me == [procs[p] EXCEPT !.req = r] IN
       procs' = [procs EXCEPT ![p] =
         IF NeedsCredentials(r.op) /\ (normalizeEmail(r.email) = <<>> \/ r.password = "")
         THEN Finish(me, 400, "none")
         ELSE [me EXCEPT !.pc = "rd_await", !.awaited = Len(writeQueue)]]
  /\ UNCHANGED <<usersFilePath, writeQueue, disk, dirExists, fsErr, idsIssued, pw, auth, client>>

Begin(p) == BeginFrom(p, Requests)

\* readUsers: `await writeQueue` resumes, ensureUsersFile() is called.
AwaitWriteQueue(p) ==
  LET me == procs[p] IN
  /\ me.pc = "rd_await"
  /\ Settled(me.awaited)
  /\ procs' = [procs EXCEPT ![p] =
       IF PromiseAt(me.awaited).state = "rejected"
       THEN Finish(me, 500, PromiseAt(me.awaited).error)
       ELSE CallEnsure(me, getUsersFilePath, "readUsers")]
  /\ UNCHANGED <<usersFilePath, writeQueue, disk, dirExists, fsErr, idsIssued, pw, auth, client>>

\* ensureUsersFile: fs.mkdir(dir, {recursive: true}) completes.
EnsureMkdir(p) ==
  LET me == procs[p]
      path == me.currentPath
  IN
  /\ me.pc = "ens_mkdir"
  /\ IF dirExists[path] \/ fsErr[path] = "ok"
     THEN /\ dirExists' = [dirExists EXCEPT ![path] = TRUE]
          /\ procs' = [procs EXCEPT ![p].pc = "ens_access"]
          /\ UNCHANGED <<usersFilePath, writeQueue>>
     ELSE /\ EnsureCatch(p, fsErr[path])
          /\ UNCHANGED dirExists
  /\ UNCHANGED <<disk, fsErr, idsIssued, pw, auth, client>>

\* ensureUsersFile: fs.access(currentPath) completes.
EnsureAccess(p) ==
  LET me == procs[p] IN
  /\ me.pc = "ens_access"
  /\ IF disk[me.currentPath] # Absent
     THEN EnsureResolved(p)
     ELSE /\ procs' = [procs EXCEPT ![p].pc = "ens_write"]
          /\ UNCHANGED <<usersFilePath, writeQueue>>
  /\ UNCHANGED <<disk, dirExists, fsErr, idsIssued, pw, auth, client>>

\* ensureUsersFile: fs.writeFile(currentPath, "[]") completes.
EnsureWriteFile(p) ==
  LET me == procs[p]
      path == me.currentPath
  IN
  /\ me.pc = "ens_write"
  /\ IF WriteError(path) = "ok"
     THEN /\ disk' = [disk EXCEPT ![path] = JSONstringify(<<>>)]
          /\ EnsureResolved(p)
     ELSE /\ EnsureCatch(p, WriteError(path))
          /\ UNCHANGED disk
  /\ UNCHANGED <<dirExists, fsErr, idsIssued, pw, auth, client>>

\* What the handler does with the array that readUsers returned.
AfterRead(req, users, id, salt, now) ==
  CASE req.op = "register" ->
         RegisterAfterRead(users, normalizeEmail(req.email), req.password, id, salt, now)
    [] req.op = "login" ->
         LoginAfterRead(users, normalizeEmail(req.email), req.password)
    [] req.op = "getProfile" -> GetProfileAfterRead(users, req.id)
    [] req.op = "updateProfile" -> UpdateProfileAfterRead(users, req.id, req.body)

\* readUsers: fs.readFile completes; the handler runs on to its response or to
\* the first await of writeUsers.
ReadFile(p) ==
  LET me == procs[p]
      raw == disk[me.ioPath]
  IN
  /\ me.pc = "rd_file"
  /\ IF raw = Absent
     THEN /\ procs' = [procs EXCEPT ![p] = Finish(me, 500, "ENOENT")]
          /\ UNCHANGED idsIssued
     ELSE IF ParseThrows(raw)
     THEN /\ procs' = [procs EXCEPT ![p] = Finish(me, 500, "SyntaxError")]
          /\ UNCHANGED idsIssued
     ELSE \E salt \in Salts :
            LET users == ParseUsers(raw)
                out == AfterRead(me.req, users, FirstFreshId + idsIssued, salt, Now)
                seen == [me EXCEPT !.readResult = users, !.ioPath = ""]
            IN /\ procs' = [procs EXCEPT ![p] =
                    IF out.status # 0
                    THEN Finish(seen, out.status, "none")
                    ELSE CallEnsure(
                           [seen EXCEPT !.users = out.users,
                                        !.createdId =
                                          IF me.req.op = "register"
                                          THEN FirstFreshId + idsIssued ELSE 0],
                           getUsersFilePath, "writeUsers")]
               /\ idsIssued' =
                    IF me.req.op = "register" /\ out.status = 0
                    THEN idsIssued + 1 ELSE idsIssued
  /\ UNCHANGED <<usersFilePath, writeQueue, disk, dirExists, fsErr, pw, auth, client>>

\* A chain whose callbacks run after a failed predecessor too, as with
\* writeQueue.then(job, job).
JobStart_RunsAfterFailure(p) ==
  LET me == procs[p] IN
  /\ me.pc = "job_wait"
  /\ Settled(me.job - 1)
  /\ writeQueue' = [writeQueue EXCEPT ![me.job] = Promise("running", "none")]
  /\ procs' = [procs EXCEPT ![p] =
       [me EXCEPT !.pc = "job_open", !.ioPath = getUsersFilePath]]
  /\ UNCHANGED <<usersFilePath, disk, dirExists, fsErr, idsIssued, pw, auth, client>>

\* The queued write's turn: the previous promise of the chain has settled.
JobStart(p) ==
  LET me == procs[p]
      prev == PromiseAt(me.job - 1)
  IN
  /\ me.pc = "job_wait"
  /\ Settled(me.job - 1)
  /\ IF prev.state = "rejected"
     THEN RejectJob(p, prev.error)
     ELSE /\ writeQueue' = [writeQueue EXCEPT ![me.job] = Promise("running", "none")]
          /\ procs' = [procs EXCEPT ![p] =
               [me EXCEPT !.pc = "job_open", !.ioPath = getUsersFilePath]]
  /\ UNCHANGED <<usersFilePath, disk, dirExists, fsErr, idsIssued, pw, auth, client>>

\* The queued write: fs.writeFile opens (and truncates) the file, or fails.
JobOpen(p) ==
  LET me == procs[p]
      code == WriteError(me.ioPath)
  IN
  /\ me.pc = "job_open"
  /\ IF code = "ok"
     THEN /\ disk' = [disk EXCEPT ![me.ioPath] = Blank]
          /\ procs' = [procs EXCEPT ![p].pc = "job_data"]
          /\ UNCHANGED <<usersFilePath, writeQueue>>
     ELSE IF ~me.inCatch /\ isReadonlyError(code)
             /\ getUsersFilePath # TMP_USER_DB_PATH
     THEN /\ usersFilePath' = TMP_USER_DB_PATH
          /\ procs' = [procs EXCEPT ![p] =
               CallEnsure([me EXCEPT !.ioPath = ""], TMP_USER_DB_PATH, "catch")]
          /\ UNCHANGED <<disk, writeQueue>>
     ELSE /\ RejectJob(p, code)
          /\ UNCHANGED <<disk, usersFilePath>>
  /\ UNCHANGED <<dirExists, fsErr, idsIssued, pw, auth, client>>

\* The queued write: part of the data has reached the file.
JobPartial(p) ==
  LET me == procs[p] IN
  /\ me.pc = "job_data"
  /\ disk[me.ioPath] = Blank
  /\ me.users # <<>>
  /\ disk' = [disk EXCEPT ![me.ioPath] = Garbage]
  /\ UNCHANGED <<usersFilePath, writeQueue, dirExists, fsErr, procs, idsIssued, pw, auth, client>>

\* A fallback write that saves only the records added by the call, without
\* those it read from the primary file.
JobData_FallbackDropsLoaded(p) ==
  LET me == procs[p]
      kept == IF me.inCatch
              THEN SubSeq(me.users, Len(me.readResult) + 1, Len(me.users))
              ELSE me.users
  IN
  /\ me.pc = "job_data"
  /\ disk' = [disk EXCEPT ![me.ioPath] = JSONstringify(kept)]
  /\ writeQueue' = [writeQueue EXCEPT ![me.job] = Promise("fulfilled", "none")]
  /\ procs' = [procs EXCEPT ![p] =
       Finish([me EXCEPT !.saved = kept],
              IF me.req.op = "register" THEN 201 ELSE 200, "none")]
  /\ UNCHANGED <<usersFilePath, dirExists, fsErr, idsIssued, pw, auth, client>>

\* The queued write: fs.writeFile completes, the promise is fulfilled and the
\* handler sends its success response.
JobData(p) ==
  LET me == procs[p] IN
  /\ me.pc = "job_data"
  /\ disk' = [disk EXCEPT ![me.ioPath] = JSONstringify(me.users)]
  /\ writeQueue' = [writeQueue EXCEPT ![me.job] = Promise("fulfilled", "none")]
  /\ procs' = [procs EXCEPT ![p] =
       Finish([me EXCEPT !.saved = me.users],
              IF me.req.op = "register" THEN 201 ELSE 200, "none")]
  /\ UNCHANGED <<usersFilePath, dirExists, fsErr, idsIssued, pw, auth, client>>

Next ==
  \E p \in Procs :
    \/ Begin(p)
    \/ AwaitWriteQueue(p)
    \/ EnsureMkdir(p)
    \/ EnsureAccess(p)
    \/ EnsureWriteFile(p)
    \/ ReadFile(p)
    \/ JobStart(p)
    \/ JobOpen(p)
    \/ JobPartial(p)
    \/ JobData(p)

Spec == Init /\ [][Next]_vars

\* ------------------------------------------------------------------------
\* The requests that claim an email (Register, and UpdateProfile with an
\* email), on a store that is new or holds the two accounts.
\* ------------------------------------------------------------------------
EmailReqs ==
  {Req("register", e, "secret1", 0, NoBody) : e \in {EmailARaw, EmailC}}
  \cup {Req("updateProfile", <<>>, "", 1, EmailBody(EmailC)),
        Req("updateProfile", <<>>, "", 2, EmailBody(EmailC)),
        Req("updateProfile", <<>>, "", 2, EmailBody(EmailA))}

InitEmails ==
  /\ Init
  /\ fsErr[DEFAULT_USER_DB_PATH] \in {"ok", "EROFS"}
  /\ \/ ~dirExists[DEFAULT_USER_DB_PATH]
     \/ disk[DEFAULT_USER_DB_PATH] = JSONstringify(<<User1, User2>>)

BeginEmail(p) == BeginFrom(p, EmailReqs)

NextEmails ==
  \E p \in Procs :
    \/ BeginEmail(p)
    \/ AwaitWriteQueue(p)
    \/ EnsureMkdir(p)
    \/ EnsureAccess(p)
    \/ EnsureWriteFile(p)
    \/ ReadFile(p)
    \/ JobStart(p)
    \/ JobOpen(p)
    \/ JobPartial(p)
    \/ JobData(p)

SpecEmails == InitEmails /\ [][NextEmails]_vars

\* ------------------------------------------------------------------------
\* Two kinds of writers and a reader, on every kind of primary path: writable,
\* read-only (the fallback is taken) and failing otherwise (the write fails).
\* ------------------------------------------------------------------------
QueueReqs ==
  {Req("register", EmailC, "secret1", 0, NoBody),
   Req("updateProfile", <<>>, "", 1, FieldBody("phone", "555")),
   Req("getProfile", <<>>, "", 1, NoBody)}

InitQueue ==
  /\ Init
  /\ fsErr[DEFAULT_USER_DB_PATH] # "EPERM"
  /\ disk[DEFAULT_USER_DB_PATH] \in {Absent, JSONstringify(<<User1, User2>>)}

BeginQueue(p) == BeginFrom(p, QueueReqs)

NextQueue ==
  \E p \in Procs :
    \/ BeginQueue(p)
    \/ AwaitWriteQueue(p)
    \/ EnsureMkdir(p)
    \/ EnsureAccess(p)
    \/ EnsureWriteFile(p)
    \/ ReadFile(p)
    \/ JobStart(p)
    \/ JobOpen(p)
    \/ JobPartial(p)
    \/ JobData(p)

SpecQueue == InitQueue /\ [][NextQueue]_vars

\* ------------------------------------------------------------------------
\* Vocabulary of the properties
\* ------------------------------------------------------------------------
\* The collection a readUsers call would get from the active file now.
Persisted == ParseUsers(disk[usersFilePath])

Done(p) == procs[p].pc = "done"

AllDone == \A p \in Procs : Done(p)

IsUpdate(p) == procs[p].req.op = "updateProfile"

IsRegister(p) == procs[p].req.op = "register"

\* readUsers has returned an array to the handler of p.
HasRead(p) ==
  \/ procs[p].pc \in {"job_wait", "job_open", "job_data"}
  \/ procs[p].pc \in {"ens_mkdir", "ens_access", "ens_write"}
       /\ procs[p].caller # "readUsers"
  \/ Done(p) /\ procs[p].status \in {200, 201, 401, 404, 409}
  \/ Done(p) /\ procs[p].job # 0

\* p is inside a read-modify-write cycle: it has loaded the collection and
\* goes on to save it, and the save has not completed.
InCycle(p) == HasRead(p) /\ ~Done(p)

\* The queued collection write of p is being applied to the file.
Writing(p) ==
  \/ procs[p].pc \in {"job_open", "job_data"}
  \/ procs[p].pc \in {"ens_mkdir", "ens_access", "ens_write"}
       /\ procs[p].caller = "catch"

\* The queued collection write of p has been applied to the file.
Wrote(p) == procs[p].job # 0 /\ writeQueue[procs[p].job].state = "fulfilled"

\* p sets exactly the profile field f, and nothing else.
SetsOnly(p, f) == IsUpdate(p) /\ procs[p].req.body.fields = {f}

\* ------------------------------------------------------------------------
\* C1: for N concurrent UpdateProfile calls against the same userId, each
\* setting a distinct single profile field, the record persisted after all
\* of them completed reflects all N field changes.
\* ------------------------------------------------------------------------
C1_NoLostUpdate ==
  (/\ AllDone
   /\ \A p \in Procs :
        /\ procs[p].status = 200
        /\ procs[p].req.id = 1
        /\ \E f \in ProfileFields : SetsOnly(p, f)
   /\ \A p, q \in Procs :
        p # q => procs[p].req.body.fields # procs[q].req.body.fields)
  => /\ FindById(Persisted, 1) # 0
     /\ \A p \in Procs : \A f \in procs[p].req.body.fields :
          Persisted[FindById(Persisted, 1)].profile[f] = procs[p].req.body.val[f]

\* ------------------------------------------------------------------------
\* C2: of the Register calls with one and the same normalized email, exactly
\* one succeeds (201); no two of them both succeed.
\* ------------------------------------------------------------------------
C2_OneRegisterWins ==
  \A p, q \in Procs :
    (/\ p # q
     /\ IsRegister(p) /\ IsRegister(q)
     /\ normalizeEmail(procs[p].req.email) = normalizeEmail(procs[q].req.email))
    => ~(procs[p].status = 201 /\ procs[q].status = 201)

\* ------------------------------------------------------------------------
\* C3: in every reachable state the persisted collection (the file at either
\* path) holds at most one record per normalized email.
\* ------------------------------------------------------------------------
UniqueEmails(users) ==
  \A i, j \in 1..Len(users) :
    i # j => normalizeEmail(users[i].email) # normalizeEmail(users[j].email)

C3_UniqueEmail == \A path \in Paths : UniqueEmails(ParseUsers(disk[path]))

\* Two calls that both claimed the same email have completed their writes, and
\* the collection holds several records.
C3_Witness ==
  \E p, q \in Procs :
    /\ p # q
    /\ Wrote(p) /\ Wrote(q) /\ Done(p) /\ Done(q)
    /\ IsRegister(p) /\ normalizeEmail(procs[p].req.email) = EmailC
    /\ IsUpdate(q) /\ procs[q].req.body = EmailBody(EmailC)
    /\ Len(Persisted) >= 2

\* ------------------------------------------------------------------------
\* C4: at any time at most one operation is inside a read-modify-write cycle
\* on the collection.
\* ------------------------------------------------------------------------
C4_OneCycleAtATime == \A p, q \in Procs : p # q => ~(InCycle(p) /\ InCycle(q))

\* ------------------------------------------------------------------------
\* C5: if A starts its store access before B, A's effect on the persisted
\* collection is visible to B's read: once A's write is applied, the array
\* that readUsers returned to B holds it.
\* ------------------------------------------------------------------------
\* The array holds what p's completed write put into the collection.
HoldsEffectOf(users, p) ==
  IF IsRegister(p)
  THEN FindById(users, procs[p].createdId) # 0
  ELSE /\ FindById(users, procs[p].req.id) # 0
       /\ LET u == users[FindById(users, procs[p].req.id)]
              body == procs[p].req.body
          IN /\ \A f \in body.fields \cap ProfileFields : u.profile[f] = body.val[f]
             /\ "email" \in body.fields => u.email = normalizeEmail(body.val.email)

C5_EarlierEffectVisible ==
  \A a, b \in Procs :
    (a < b /\ Wrote(a) /\ Done(a) /\ HasRead(b))
    => HoldsEffectOf(procs[b].readResult, a)

\* ------------------------------------------------------------------------
\* C6: a record created by a Register call that returned success is present
\* in the persisted collection in every later state.
\* ------------------------------------------------------------------------
C6_RegisteredStays ==
  \A p \in Procs :
    (IsRegister(p) /\ procs[p].status = 201)
    => FindById(Persisted, procs[p].createdId) # 0

\* ------------------------------------------------------------------------
\* C7: of two UpdateProfile calls for two different users that set email to
\* the same value, held by no record before, exactly one succeeds: the second
\* sees the first's committed email and is rejected.
\* ------------------------------------------------------------------------
C7_OneEmailChangeWins ==
  \A p, q \in Procs :
    (/\ p # q
     /\ IsUpdate(p) /\ IsUpdate(q)
     /\ procs[p].req.id # procs[q].req.id
     /\ procs[p].req.body = EmailBody(EmailC)
     /\ procs[q].req.body = EmailBody(EmailC))
    => ~(procs[p].status = 200 /\ procs[q].status = 200)

\* ------------------------------------------------------------------------
\* C8: queued collection writes are applied to the file one at a time and in
\* the order in which they were queued.
\* ------------------------------------------------------------------------
C8_FifoWrites ==
  /\ \A p, q \in Procs : p # q => ~(Writing(p) /\ Writing(q))
  /\ \A p \in Procs : Writing(p) => writeQueue[procs[p].job].state = "running"
  /\ \A i, j \in 1..Len(writeQueue) :
       (i < j /\ writeQueue[j].state # "pending")
       => writeQueue[i].state \in {"fulfilled", "rejected"}

\* One queued write is being applied while a later one waits for its turn.
C8_Witness ==
  \E p, q \in Procs :
    /\ procs[p].pc = "job_data"
    /\ procs[q].pc = "job_wait"
    /\ procs[p].job < procs[q].job

\* ------------------------------------------------------------------------
\* C9: no read of the collection overlaps a write of it: while the file read
\* of a readUsers call is in flight, no collection write to that file is
\* under way.
\* ------------------------------------------------------------------------
C9_NoReadDuringWrite ==
  \A p, q \in Procs :
    ~(/\ procs[p].pc = "rd_file"
      /\ procs[q].pc = "job_data"
      /\ procs[p].ioPath = procs[q].ioPath)

\* ------------------------------------------------------------------------
\* A single client against a primary path that is unwritable from the
\* start: the requests are issued one at a time, each after the response to
\* the one before.
\* ------------------------------------------------------------------------
InitFallback ==
  /\ Init
  /\ isReadonlyError(fsErr[DEFAULT_USER_DB_PATH])

BeginAlone(p) ==
  /\ \A q \in Procs : procs[q].pc \in {"idle", "done"}
  /\ Begin(p)

NextFallback ==
  \E p \in Procs :
    \/ BeginAlone(p)
    \/ AwaitWriteQueue(p)
    \/ EnsureMkdir(p)
    \/ EnsureAccess(p)
    \/ EnsureWriteFile(p)
    \/ ReadFile(p)
    \/ JobStart(p)
    \/ JobOpen(p)
    \/ JobPartial(p)
    \/ JobData(p)

SpecFallback == InitFallback /\ [][NextFallback]_vars

\* The last request before q whose collection write was applied, 0 if none.
LastWriterBefore(q) ==
  LET ws == {p \in Procs : p < q /\ Wrote(p)}
  IN IF ws = {} THEN 0 ELSE CHOOSE p \in ws : \A r \in ws : r <= p

\* ------------------------------------------------------------------------
\* C10: with a primary path that is unwritable (EROFS/EPERM) from the start,
\* no load or save surfaces an error, every save is applied to the scratch
\* file, and a load that follows a save returns exactly the saved collection.
\* ------------------------------------------------------------------------
C10_FallbackTransparent ==
  /\ \A p \in Procs : procs[p].status # 500
  /\ \A p \in Procs :
       Wrote(p) => /\ usersFilePath = TMP_USER_DB_PATH
                   /\ disk[DEFAULT_USER_DB_PATH] \in InitialFiles
  /\ \A q \in Procs :
       (HasRead(q) /\ LastWriterBefore(q) # 0)
       => procs[q].readResult = procs[LastWriterBefore(q)].saved

\* A save went to the scratch file and the next request has read it back.
C10_Witness ==
  \E p, q \in Procs :
    /\ p < q
    /\ Wrote(p) /\ procs[p].saved # <<>>
    /\ HasRead(q)
    /\ procs[q].readResult = procs[p].saved
    /\ usersFilePath = TMP_USER_DB_PATH
    /\ disk[DEFAULT_USER_DB_PATH] # Absent

\* ------------------------------------------------------------------------
\* C11: the active storage path changes at most once, only from the primary
\* path to the scratch path, and once it is the scratch path it stays the
\* scratch path in every later state.
\* ------------------------------------------------------------------------
C11_PathOneWay ==
  [][/\ usersFilePath' # usersFilePath
          => (usersFilePath = DEFAULT_USER_DB_PATH /\ usersFilePath' = TMP_USER_DB_PATH)
     /\ usersFilePath = TMP_USER_DB_PATH => usersFilePath' = TMP_USER_DB_PATH]_vars

\* The store was relocated and two requests have saved to the scratch file
\* since, the later one last.
C11_Witness ==
  /\ usersFilePath = TMP_USER_DB_PATH
  /\ \E p, q \in Procs :
       /\ p < q
       /\ Wrote(p) /\ Wrote(q) /\ Done(p) /\ Done(q)
       /\ procs[p].job < procs[q].job
       /\ disk[TMP_USER_DB_PATH] = JSONstringify(procs[q].saved)

\* ------------------------------------------------------------------------
\* A scratch directory that can be unwritable itself: the primary path fails
\* (read-only, or for another reason) and the scratch path may fail too.
\* ------------------------------------------------------------------------
InitScratch ==
  /\ usersFilePath = DEFAULT_USER_DB_PATH
  /\ writeQueue = <<>>
  /\ \E f1 \in {"EROFS", "EACCES"}, f2 \in {"ok", "EPERM"} :
       fsErr = [p \in Paths |-> IF p = DEFAULT_USER_DB_PATH THEN f1 ELSE f2]
  /\ \E d1, d2 \in BOOLEAN :
       dirExists = [p \in Paths |-> IF p = DEFAULT_USER_DB_PATH THEN d1 ELSE d2]
  /\ \E f \in {Absent, JSONstringify(<<User1, User2>>)} :
       /\ f # Absent => dirExists[DEFAULT_USER_DB_PATH]
       /\ disk = [p \in Paths |-> IF p = DEFAULT_USER_DB_PATH THEN f ELSE Absent]
  /\ procs = [p \in Procs |-> IdleProc]
  /\ idsIssued = 0
  /\ pw = NoCall
  /\ auth = NoAuth
  /\ client = NoClient

SpecScratch == InitScratch /\ [][NextQueue]_vars

\* The error with which the pending file operation of p's ensureUsersFile call
\* fails, "ok" when it succeeds or p is not inside ensureUsersFile.
EnsureError(p) ==
  LET path == procs[p].currentPath IN
  CASE procs[p].pc = "ens_mkdir" ->
         IF dirExists[path] \/ fsErr[path] = "ok" THEN "ok" ELSE fsErr[path]
    [] procs[p].pc = "ens_write" -> WriteError(path)
    [] OTHER -> "ok"

\* ------------------------------------------------------------------------
\* C12: when ensureUsersFile fails with a read-only/permission error and the
\* active path is not the scratch path, the store switches to the scratch
\* path and ensures again against it; when an ensure against the scratch path
\* fails, the error is propagated to the caller (the request ends with it),
\* with no further retry and no path change.
\* ------------------------------------------------------------------------
C12_RetryOnce ==
  [][\A p \in Procs :
       LET me == procs[p]
           code == EnsureError(p)
       IN (code # "ok" /\ procs'[p] # me) =>
            /\ (code \in {"EROFS", "EPERM"} /\ usersFilePath # TMP_USER_DB_PATH)
                 => /\ usersFilePath' = TMP_USER_DB_PATH
                    /\ procs'[p].pc = "ens_mkdir"
                    /\ procs'[p].currentPath = TMP_USER_DB_PATH
                    /\ procs'[p].caller = me.caller
            /\ me.currentPath = TMP_USER_DB_PATH
                 => /\ usersFilePath' = usersFilePath
                    /\ procs'[p].pc = "done"
                    /\ procs'[p].status = 500
                    /\ procs'[p].error = code]_vars

\* The primary path is read-only and the retry against the scratch path failed
\* with the scratch directory's own error, which the request ended with.
C12_Witness ==
  /\ fsErr[DEFAULT_USER_DB_PATH] = "EROFS"
  /\ fsErr[TMP_USER_DB_PATH] = "EPERM"
  /\ usersFilePath = TMP_USER_DB_PATH
  /\ \E p \in Procs :
       /\ Done(p)
       /\ procs[p].status = 500
       /\ procs[p].error = "EPERM"

\* ------------------------------------------------------------------------
\* A users file that was damaged outside the server: it holds a broken JSON
\* text, or a JSON text that is not an array.
\* ------------------------------------------------------------------------
InitCorrupt ==
  /\ usersFilePath = DEFAULT_USER_DB_PATH
  /\ writeQueue = <<>>
  /\ \E fault \in {"ok", "EROFS"} :
       fsErr = [p \in Paths |-> IF p = DEFAULT_USER_DB_PATH THEN fault ELSE "ok"]
  /\ dirExists = [p \in Paths |-> TRUE]
  /\ \E f \in {Garbage, NonArray, JSONstringify(<<User1, User2>>)} :
       disk = [p \in Paths |-> IF p = DEFAULT_USER_DB_PATH THEN f ELSE Absent]
  /\ procs = [p \in Procs |-> IdleProc]
  /\ idsIssued = 0
  /\ pw = NoCall
  /\ auth = NoAuth
  /\ client = NoClient

SpecCorrupt == InitCorrupt /\ [][NextQueue]_vars

\* The content is present and is not a JSON array.
NotAJsonArray(raw) == raw.kind \notin {"absent", "blank", "json"}

\* ------------------------------------------------------------------------
\* C13: whenever the content that readUsers reads is present but does not
\* parse as a JSON array, readUsers fails with the parse error: the request
\* ends with it, no collection is returned to the handler and no write
\* follows.
\* ------------------------------------------------------------------------
C13_CorruptStoreFails ==
  [][\A p \in Procs :
       (/\ procs[p].pc = "rd_file"
        /\ NotAJsonArray(disk[procs[p].ioPath])
        /\ procs'[p] # procs[p])
       => /\ procs'[p].pc = "done"
          /\ procs'[p].status = 500
          /\ procs'[p].error = "SyntaxError"
          /\ procs'[p].job = 0]_vars

\* ------------------------------------------------------------------------
\* C14: in every reachable state the content of the active users file is
\* either absent or a well-formed JSON array of user records.
\* ------------------------------------------------------------------------
C14_WellFormedFile == disk[usersFilePath].kind \in {"absent", "json"}

\* ------------------------------------------------------------------------
\* C15: a Register call whose normalized email belongs to a record of the
\* stored collection it reads answers 409 (DuplicateEmail) and performs no
\* write: it queues none and the files are left as they are.
\* ------------------------------------------------------------------------
C15_DuplicateNoWrite ==
  [][\A p \in Procs :
       LET stored == ParseUsers(disk[procs[p].ioPath]) IN
       (/\ IsRegister(p)
        /\ procs[p].pc = "rd_file"
        /\ procs'[p] # procs[p]
        /\ \E i \in 1..Len(stored) :
             stored[i].email = normalizeEmail(procs[p].req.email))
       => /\ procs'[p].pc = "done"
          /\ procs'[p].status = 409
          /\ procs'[p].job = 0
          /\ disk' = disk
          /\ writeQueue' = writeQueue]_vars

\* A registration of " A@X " was refused while a@x is registered, and the
\* collection still holds both accounts.
C15_Witness ==
  \E p \in Procs :
    /\ IsRegister(p) /\ Done(p)
    /\ procs[p].req.email = EmailARaw
    /\ procs[p].status = 409
    /\ procs[p].job = 0
    /\ FindById(Persisted, 1) # 0 /\ Persisted[FindById(Persisted, 1)].email = EmailA
    /\ Len(Persisted) = 2

\* ------------------------------------------------------------------------
\* Logins with a known and an unknown email, a right and a wrong password,
\* next to a registration of the unknown email.
\* ------------------------------------------------------------------------
LoginSetReqs == LoginReqs \cup {Req("register", EmailC, "secret1", 0, NoBody)}

BeginLogin(p) == BeginFrom(p, LoginSetReqs)

NextLogin ==
  \E p \in Procs :
    \/ BeginLogin(p)
    \/ AwaitWriteQueue(p)
    \/ EnsureMkdir(p)
    \/ EnsureAccess(p)
    \/ EnsureWriteFile(p)
    \/ ReadFile(p)
    \/ JobStart(p)
    \/ JobOpen(p)
    \/ JobPartial(p)
    \/ JobData(p)

SpecLogin == InitEmails /\ [][NextLogin]_vars

IsLogin(p) == procs[p].req.op = "login"

\* The collection that p loaded has a record with p's normalized email, and
\* verifyPassword accepts p's password against the hash of that record.
CredentialsMatch(p) ==
  LET users == procs[p].readResult
      i == FindByEmail(users, normalizeEmail(procs[p].req.email))
  IN /\ i # 0
     /\ verifyPassword(procs[p].req.password, users[i].passwordHash).value

\* ------------------------------------------------------------------------
\* C16: a Login that loaded the collection succeeds (200) exactly when a
\* record with the normalized email exists and verifyPassword accepts the
\* password; in every other case, no record or wrong password alike, it ends
\* with one and the same response (401, the same body).
\* ------------------------------------------------------------------------
C16_LoginOutcome ==
  \A p \in Procs :
    (IsLogin(p) /\ Done(p) /\ HasRead(p))
    => /\ procs[p].error = "none"
       /\ procs[p].job = 0
       /\ IF CredentialsMatch(p) THEN procs[p].status = 200 ELSE procs[p].status = 401

\* One login failed for an unknown email and one for a wrong password, with
\* the same response.
C16_Witness ==
  \E p, q \in Procs :
    /\ IsLogin(p) /\ IsLogin(q) /\ Done(p) /\ Done(q) /\ HasRead(p) /\ HasRead(q)
    /\ FindByEmail(procs[p].readResult, normalizeEmail(procs[p].req.email)) = 0
    /\ procs[p].readResult # <<>>
    /\ FindByEmail(procs[q].readResult, normalizeEmail(procs[q].req.email)) # 0
    /\ procs[q].req.password = "wrong"
    /\ procs[p].status = 401 /\ procs[q].status = 401
    /\ procs[p].error = procs[q].error

\* ------------------------------------------------------------------------
\* hashPassword and verifyPassword on their own: a plaintext is hashed, the
\* stored value may be damaged, and a plaintext is verified against it.
\* ------------------------------------------------------------------------
\* salts that crypto.randomBytes can return
SaltValues == Salts \cup {<<"a", "5">>, <<"0", "0">>}

StoredDamages ==
  {"no delimiter", "empty salt", "empty hash", "absent", "empty",
   "short key", "long key", "odd length", "not hex", "text after key"}

\* The stored value salt:hash after the damage.
Damaged(stored, damage) ==
  LET salt == split(stored, ":")[1]
      hash == split(stored, ":")[2]
  IN CASE damage = "no delimiter" -> salt \o hash
       [] damage = "empty salt" -> <<":">> \o hash
       [] damage = "empty hash" -> salt \o <<":">>
       [] damage = "absent" -> Undefined
       [] damage = "empty" -> <<>>
       [] damage = "short key" -> salt \o <<":">> \o SubSeq(hash, 1, Len(hash) - 2)
       [] damage = "long key" -> stored \o <<"0", "0">>
       [] damage = "odd length" -> SubSeq(stored, 1, Len(stored) - 1)
       [] damage = "not hex" -> salt \o <<":">> \o [i \in 1..Len(hash) |-> "z"]
       [] damage = "text after key" -> stored \o <<"z", "z">>

InitCodec ==
  /\ Init
  /\ fsErr[DEFAULT_USER_DB_PATH] = "ok"
  /\ ~dirExists[DEFAULT_USER_DB_PATH]

HashPassword ==
  /\ pw.state = "none"
  /\ \E password \in {Plaintexts[i] : i \in 1..Len(Plaintexts)}, salt \in SaltValues :
       pw' = [NoCall EXCEPT !.state = "hashed", !.plaintext = password,
                            !.stored = hashPassword(password, salt)]
  /\ UNCHANGED <<serverVars, auth, client>>

DamageStored ==
  /\ pw.state = "hashed"
  /\ pw.damage = "intact"
  /\ \E damage \in StoredDamages :
       pw' = [pw EXCEPT !.stored = Damaged(pw.stored, damage), !.damage = damage]
  /\ UNCHANGED <<serverVars, auth, client>>

VerifyPassword ==
  /\ pw.state = "hashed"
  /\ \E password \in {Plaintexts[i] : i \in 1..Len(Plaintexts)} :
       pw' = [pw EXCEPT !.state = "verified", !.guess = password,
                        !.result = verifyPassword(password, pw.stored)]
  /\ UNCHANGED <<serverVars, auth, client>>

NextCodec == HashPassword \/ DamageStored \/ VerifyPassword

SpecCodec == InitCodec /\ [][NextCodec]_vars

\* ------------------------------------------------------------------------
\* C17: for all plaintexts p and q, verifyPassword(p, hashPassword(p)) is
\* true, and verifyPassword(q, hashPassword(p)) is false whenever q differs
\* from p, the empty plaintext included.
\* ------------------------------------------------------------------------
C17_RoundTrip ==
  (pw.state = "verified" /\ pw.damage = "intact")
  => /\ pw.result.throws = "none"
     /\ pw.result.value <=> (pw.guess = pw.plaintext)

\* The empty plaintext was hashed and verified.
C17_Witness ==
  /\ pw.state = "verified" /\ pw.damage = "intact"
  /\ pw.plaintext = "" /\ pw.guess = ""
  /\ pw.result = Completion(TRUE, "none")

\* ------------------------------------------------------------------------
\* C18: verifyPassword returns false without raising for every malformed
\* stored value: missing delimiter, empty salt or empty hash part, absent
\* value, or a stored key whose length differs from that of the derived key;
\* it never raises, so the comparison is reached with equal lengths only.
\* ------------------------------------------------------------------------
C18_MalformedIsFalse ==
  pw.state = "verified"
  => /\ pw.result.throws = "none"
     /\ pw.damage \in (StoredDamages \ {"text after key"})
          => pw.result = Completion(FALSE, "none")

\* The right plaintext was verified against a stored value with a shortened
\* key.
C18_Witness ==
  /\ pw.state = "verified"
  /\ pw.damage = "short key"
  /\ pw.guess = pw.plaintext
  /\ pw.result = Completion(FALSE, "none")

\* ------------------------------------------------------------------------
\* Tokens on their own: a token is issued for a user, time passes, the token
\* may be tampered with, and a request presents it to a middleware.
\* ------------------------------------------------------------------------
\* Last tick of the clock.
MaxClock == 4

TamperKinds == {"signature", "payload", "malformed"}

\* The token after tampering: a changed signature, a changed payload under the
\* old signature (another user's id, a later expiry), or a broken form.
Tampered(token, kind) ==
  CASE kind = "signature" ->
         Token(token.payload, Signature("not the secret", token.payload), 3)
    [] kind = "payload" ->
         Token([token.payload EXCEPT !.id = 3 - @, !.exp = @ + MaxClock],
               token.signature, 3)
    [] kind = "malformed" -> Token(token.payload, token.signature, 2)

Middleware(name, header, now) ==
  IF name = "requireAuth" THEN requireAuth(header, now) ELSE optionalAuth(header, now)

InitAuth == InitCodec

IssueToken ==
  /\ auth.state = "none"
  /\ \E user \in {User1, User2} :
       auth' = [auth EXCEPT !.state = "issued",
                            !.token = generateToken(user, auth.clock),
                            !.issuedFor = generateToken(user, auth.clock).payload]
  /\ UNCHANGED <<serverVars, pw, client>>

Tick ==
  /\ auth.state \in {"none", "issued"}
  /\ auth.clock < MaxClock
  /\ auth' = [auth EXCEPT !.clock = @ + 1]
  /\ UNCHANGED <<serverVars, pw, client>>

TamperToken ==
  /\ auth.state = "issued"
  /\ auth.tamper = "none"
  /\ \E kind \in TamperKinds :
       auth' = [auth EXCEPT !.token = Tampered(auth.token, kind), !.tamper = kind]
  /\ UNCHANGED <<serverVars, pw, client>>

Authenticate ==
  /\ auth.state = "issued"
  /\ \E name \in {"requireAuth", "optionalAuth"},
        form \in {"absent", "scheme only", "bearer"} :
       LET header == Header(form, IF form = "bearer" THEN auth.token ELSE NoToken)
       IN auth' = [auth EXCEPT !.state = "checked", !.middleware = name,
                               !.header = header,
                               !.result = Middleware(name, header, auth.clock)]
  /\ UNCHANGED <<serverVars, pw, client>>

NextAuth == IssueToken \/ Tick \/ TamperToken \/ Authenticate

SpecAuth == InitAuth /\ [][NextAuth]_vars

\* The request presented the token as issued, untouched.
PresentedIntact == auth.header.form = "bearer" /\ auth.tamper = "none"

Expired == auth.clock >= auth.issuedFor.exp

\* ------------------------------------------------------------------------
\* C19: a token issued for (userId, email) verifies to exactly that userId
\* and email at any time before its expiration window has elapsed, fails
\* verification once the window has elapsed, and a token whose signature does
\* not validate never yields an identity: req.user is set only after the
\* signature and the expiry were validated.
\* ------------------------------------------------------------------------
C19_TokenValidity ==
  auth.state = "checked"
  => /\ (PresentedIntact /\ ~Expired)
          => /\ auth.result.user.id = auth.issuedFor.id
             /\ auth.result.user.email = auth.issuedFor.email
             /\ auth.result.status = 0
     /\ (PresentedIntact /\ Expired)
          => /\ auth.result.user = NoUser
             /\ auth.middleware = "requireAuth" => auth.result.status = 401
     /\ auth.tamper # "none" => auth.result.user = NoUser
     /\ auth.result.user # NoUser => (PresentedIntact /\ ~Expired)

\* A token was accepted on the last tick before its expiry.
C19_Witness ==
  /\ auth.state = "checked"
  /\ PresentedIntact
  /\ auth.clock > auth.issuedFor.iat
  /\ auth.clock + 1 = auth.issuedFor.exp
  /\ auth.result.user.id = 2
  /\ auth.result.user.email = EmailB

\* ------------------------------------------------------------------------
\* C20: token verification reports an expired token (correctly signed, past
\* its expiration) and an invalid token (malformed or mis-signed) as two
\* distinct failures: the result for the one differs from the result for the
\* other.
\* ------------------------------------------------------------------------
C20_DistinctFailures ==
  (auth.state = "checked" /\ PresentedIntact /\ Expired)
  => \A kind \in {"signature", "malformed"} :
       auth.result #
         Middleware(auth.middleware,
                    Header("bearer", Tampered(auth.token, kind)), auth.clock)

\* ------------------------------------------------------------------------
\* Vocabulary of the profile properties
\* ------------------------------------------------------------------------
\* after is before with only the supplied fields of the record id changed:
\* the same records in the same places, every other record as it was, and in
\* the record id everything that the body does not supply as it was.
OnlySuppliedChanged(before, after, id, body) ==
  /\ Len(after) = Len(before)
  /\ \A i \in 1..Len(before) :
       IF before[i].id # id
       THEN after[i] = before[i]
       ELSE /\ after[i].id = before[i].id
            /\ after[i].createdAt = before[i].createdAt
            /\ after[i].passwordHash = before[i].passwordHash
            /\ "email" \notin body.fields => after[i].email = before[i].email
            /\ \A f \in ProfileFields \ body.fields :
                 ensureProfile(after[i])[f] = ensureProfile(before[i])[f]

\* ------------------------------------------------------------------------
\* C21: UpdateProfile changes only the fields supplied in the request: when
\* its write is applied to the stored collection, every field of the target
\* that is not supplied keeps the value stored before, and the records of
\* all other users are as stored before.
\* ------------------------------------------------------------------------
C21_OnlySuppliedFields ==
  [][\A p \in Procs :
       (/\ IsUpdate(p)
        /\ procs[p].pc = "job_open" /\ ~procs[p].inCatch
        /\ procs'[p].pc = "job_data"
        /\ disk[procs[p].ioPath].kind = "json")
       => OnlySuppliedChanged(ParseUsers(disk[procs[p].ioPath]), procs[p].users,
                              procs[p].req.id, procs[p].req.body)]_vars

\* ------------------------------------------------------------------------
\* Every kind of request next to a registration: a profile update, a profile
\* read and a login of the first account.
\* ------------------------------------------------------------------------
RecordReqs == QueueReqs \cup {Req("login", EmailARaw, "secret1", 0, NoBody)}

BeginRecord(p) == BeginFrom(p, RecordReqs)

NextRecords ==
  \E p \in Procs :
    \/ BeginRecord(p)
    \/ AwaitWriteQueue(p)
    \/ EnsureMkdir(p)
    \/ EnsureAccess(p)
    \/ EnsureWriteFile(p)
    \/ ReadFile(p)
    \/ JobStart(p)
    \/ JobOpen(p)
    \/ JobPartial(p)
    \/ JobData(p)

SpecRecords == InitQueue /\ [][NextRecords]_vars

Range(seq) == {seq[i] : i \in 1..Len(seq)}

\* Every copy of a user record there is: in the files and in the arrays that
\* the handlers hold.
AllRecords ==
  UNION ({Range(ParseUsers(disk[path])) : path \in Paths}
         \cup {Range(procs[p].users) : p \in Procs}
         \cup {Range(procs[p].readResult) : p \in Procs}
         \cup {Range(procs[p].saved) : p \in Procs})

UniqueIds(users) == \A i, j \in 1..Len(users) : i # j => users[i].id # users[j].id

\* ------------------------------------------------------------------------
\* C22: id, createdAt and the credential hash of a record are the values
\* that its registration gave it, in every state and in every copy of the
\* record: no UpdateProfile, Login or GetProfile changes them, and no two
\* records of a collection share an id.
\* ------------------------------------------------------------------------
C22_CreationValuesKept ==
  /\ \A u, v \in AllRecords :
       u.id = v.id => (u.createdAt = v.createdAt /\ u.passwordHash = v.passwordHash)
  /\ \A u \in AllRecords :
       IF u.id \in UserIds
       THEN \E first \in {User1, User2} :
              /\ u.id = first.id
              /\ u.createdAt = first.createdAt
              /\ u.passwordHash = first.passwordHash
       ELSE \E p \in Procs, salt \in Salts :
              /\ IsRegister(p)
              /\ procs[p].createdId = u.id
              /\ u.passwordHash = hashPassword(procs[p].req.password, salt)
  /\ \A path \in Paths : UniqueIds(ParseUsers(disk[path]))

\* A registration was saved, and a later update of another account, made on
\* a collection that held the new record, was saved after it.
C22_Witness ==
  \E p, q \in Procs :
    /\ IsRegister(p) /\ Wrote(p) /\ Done(p)
    /\ IsUpdate(q) /\ Wrote(q) /\ Done(q)
    /\ procs[p].job < procs[q].job
    /\ FindById(Persisted, procs[p].createdId) # 0
    /\ FindById(Persisted, 1) # 0
    /\ Persisted[FindById(Persisted, 1)].profile.phone = "555"

\* ------------------------------------------------------------------------
\* Emails as clients type them, in capitals and with blanks around them:
\* requests that name the first account, and an address that is new.
\* ------------------------------------------------------------------------
\* "C@x " : the same address as EmailC before normalisation
EmailCRaw == <<"C", "@", "x", " ">>

TypedReqs ==
  {Req("register", EmailARaw, "secret1", 0, NoBody),
   Req("login", EmailARaw, "secret1", 0, NoBody),
   Req("updateProfile", <<>>, "", 1, EmailBody(EmailARaw)),
   Req("updateProfile", <<>>, "", 2, EmailBody(EmailARaw)),
   Req("updateProfile", <<>>, "", 2, EmailBody(EmailCRaw))}

BeginTyped(p) == BeginFrom(p, TypedReqs)

NextTyped ==
  \E p \in Procs :
    \/ BeginTyped(p)
    \/ AwaitWriteQueue(p)
    \/ EnsureMkdir(p)
    \/ EnsureAccess(p)
    \/ EnsureWriteFile(p)
    \/ ReadFile(p)
    \/ JobStart(p)
    \/ JobOpen(p)
    \/ JobPartial(p)
    \/ JobData(p)

SpecTyped == InitEmails /\ [][NextTyped]_vars

\* The email that the update of p asks for, normalized.
WantedEmail(p) == normalizeEmail(procs[p].req.body.val.email)

\* ------------------------------------------------------------------------
\* C23: an UpdateProfile with an email field, for a record of the collection
\* it loads, answers 409 (DuplicateEmail) and writes nothing exactly when a
\* record other than the target holds the normalized email there; otherwise,
\* also when the target itself holds that email, it goes on to save the
\* collection with the target's email set to the normalized value.
\* ------------------------------------------------------------------------
C23_DuplicateOnUpdate ==
  [][\A p \in Procs :
       LET stored == ParseUsers(disk[procs[p].ioPath])
           target == FindById(stored, procs[p].req.id)
           taken == \E i \in 1..Len(stored) :
                      stored[i].email = WantedEmail(p) /\ stored[i].id # procs[p].req.id
       IN (/\ IsUpdate(p)
           /\ "email" \in procs[p].req.body.fields
           /\ WantedEmail(p) # <<>>
           /\ procs[p].pc = "rd_file"
           /\ procs'[p] # procs[p]
           /\ target # 0)
          => IF taken
             THEN /\ procs'[p].pc = "done"
                  /\ procs'[p].status = 409
                  /\ procs'[p].job = 0
                  /\ disk' = disk
                  /\ writeQueue' = writeQueue
             ELSE /\ procs'[p].pc = "ens_mkdir"
                  /\ procs'[p].caller = "writeUsers"
                  /\ procs'[p].users[target].email = WantedEmail(p)]_vars

\* An update of the first account to " A@X ", the email it holds, was saved,
\* and the same update of the second account was refused.
C23_Witness ==
  \E p, q \in Procs :
    /\ IsUpdate(p) /\ procs[p].req.id = 1 /\ procs[p].req.body = EmailBody(EmailARaw)
    /\ Done(p) /\ procs[p].status = 200 /\ Wrote(p)
    /\ IsUpdate(q) /\ procs[q].req.id = 2 /\ procs[q].req.body = EmailBody(EmailARaw)
    /\ Done(q) /\ procs[q].status = 409 /\ procs[q].job = 0
    /\ Persisted[FindById(Persisted, 1)].email = EmailA

IsGetProfile(p) == procs[p].req.op = "getProfile"

NoResponseBody == [error |-> TRUE]

\* The JSON body of the response that the handler of a request sent, from the
\* record it holds: the one it found in the array it loaded, or the one it
\* saved.  The token of the register and login bodies is left out.
ResponseBody(me) ==
  CASE me.status = 200 /\ me.req.op = "getProfile" ->
         buildProfileResponse(me.readResult[FindById(me.readResult, me.req.id)])
    [] me.status = 200 /\ me.req.op = "updateProfile" ->
         buildProfileResponse(me.saved[FindById(me.saved, me.req.id)])
    [] me.status = 200 /\ me.req.op = "login" ->
         LET user == me.readResult[FindByEmail(me.readResult, normalizeEmail(me.req.email))]
         IN [id |-> user.id, email |-> user.email]
    [] me.status = 201 ->
         LET newUser == me.saved[FindById(me.saved, me.createdId)]
         IN [id |-> newUser.id, email |-> newUser.email, createdAt |-> newUser.createdAt]
    [] OTHER -> NoResponseBody

\* ------------------------------------------------------------------------
\* Records written by earlier versions of the server: one without a profile,
\* one with a profile that lacks fields and holds an empty language.
\* ------------------------------------------------------------------------
LegacyUser1 ==
  [id |-> 1, email |-> EmailA,
   passwordHash |-> hashPassword("secret1", <<"5", "a">>), createdAt |-> 0]

LegacyUser2 ==
  [id |-> 2, email |-> EmailB,
   passwordHash |-> hashPassword("secret1", <<"5", "a">>),
   profile |-> [phone |-> "555", language |-> ""], createdAt |-> 0]

LegacyReqs ==
  {Req("getProfile", <<>>, "", 1, NoBody),
   Req("getProfile", <<>>, "", 2, NoBody),
   Req("updateProfile", <<>>, "", 2, FieldBody("country", "France"))}

InitLegacy ==
  /\ usersFilePath = DEFAULT_USER_DB_PATH
  /\ writeQueue = <<>>
  /\ \E fault \in {"ok", "EROFS"} :
       fsErr = [p \in Paths |-> IF p = DEFAULT_USER_DB_PATH THEN fault ELSE "ok"]
  /\ dirExists = [p \in Paths |-> TRUE]
  /\ \E f \in {JSONstringify(<<LegacyUser1, LegacyUser2>>),
               JSONstringify(<<User1, LegacyUser2>>)} :
       disk = [p \in Paths |-> IF p = DEFAULT_USER_DB_PATH THEN f ELSE Absent]
  /\ procs = [p \in Procs |-> IdleProc]
  /\ idsIssued = 0
  /\ pw = NoCall
  /\ auth = NoAuth
  /\ client = NoClient

BeginLegacy(p) == BeginFrom(p, LegacyReqs)

NextLegacy ==
  \E p \in Procs :
    \/ BeginLegacy(p)
    \/ AwaitWriteQueue(p)
    \/ EnsureMkdir(p)
    \/ EnsureAccess(p)
    \/ EnsureWriteFile(p)
    \/ ReadFile(p)
    \/ JobStart(p)
    \/ JobOpen(p)
    \/ JobPartial(p)
    \/ JobData(p)

SpecLegacy == InitLegacy /\ [][NextLegacy]_vars

\* The record with this id in the array that p loaded.
Loaded(p, id) == procs[p].readResult[FindById(procs[p].readResult, id)]

\* ------------------------------------------------------------------------
\* C25: GetProfile returns, for each of phone, country, language and
\* currencyType, the value of the record it loaded when the record has one,
\* and the default ("", "", "en", "USD") when the record lacks the field or
\* has no profile; a stored value, an empty one too, is never replaced by a
\* default.
\* ------------------------------------------------------------------------
C25_DefaultsForMissing ==
  \A p \in Procs :
    (IsGetProfile(p) /\ Done(p) /\ procs[p].status = 200)
    => LET user == Loaded(p, procs[p].req.id)
           body == ResponseBody(procs[p])
       IN \A f \in ProfileFields :
            body[f] = IF "profile" \in DOMAIN user /\ f \in DOMAIN user.profile
                      THEN user.profile[f]
                      ELSE DEFAULT_PROFILE[f]

\* The profile of the record without a profile was returned as the defaults,
\* and that of the record with a partial profile with its empty language.
C25_Witness ==
  \E p, q \in Procs :
    /\ IsGetProfile(p) /\ Done(p) /\ procs[p].status = 200
    /\ Loaded(p, procs[p].req.id) = LegacyUser1
    /\ ResponseBody(procs[p]).language = "en"
    /\ ResponseBody(procs[p]).currencyType = "USD"
    /\ IsGetProfile(q) /\ Done(q) /\ procs[q].status = 200
    /\ Loaded(q, procs[q].req.id) = LegacyUser2
    /\ ResponseBody(procs[q]).language = ""
    /\ ResponseBody(procs[q]).phone = "555"
    /\ ResponseBody(procs[q]).currencyType = "USD"

\* ------------------------------------------------------------------------
\* One client on an empty store: it sends a request, waits for the response
\* and sends the next one, seven in all.
\* ------------------------------------------------------------------------
\* The id that the client got from its registration.
RegisteredId(responses) ==
  IF responses # <<>> /\ "id" \in DOMAIN responses[1].body
  THEN responses[1].body.id ELSE 0

\* The requests of the client in their order, given the responses so far.
Script(responses) ==
  <<Req("register", EmailA, "secret1", 0, NoBody),
    Req("register", EmailA, "secret2", 0, NoBody),
    Req("login", EmailA, "wrong", 0, NoBody),
    Req("login", EmailA, "secret1", 0, NoBody),
    Req("getProfile", <<>>, "", RegisteredId(responses), NoBody),
    Req("updateProfile", <<>>, "", RegisteredId(responses), FieldBody("language", "es")),
    Req("getProfile", <<>>, "", RegisteredId(responses), NoBody)>>

InitScript ==
  /\ usersFilePath = DEFAULT_USER_DB_PATH
  /\ writeQueue = <<>>
  /\ \E fault \in {"ok", "EROFS", "EPERM"} :
       fsErr = [p \in Paths |-> IF p = DEFAULT_USER_DB_PATH THEN fault ELSE "ok"]
  /\ \E d \in BOOLEAN :
       dirExists = [p \in Paths |-> IF p = DEFAULT_USER_DB_PATH THEN d ELSE TRUE]
  /\ disk = [p \in Paths |-> Absent]
  /\ procs = [p \in Procs |-> IdleProc]
  /\ idsIssued = 0
  /\ pw = NoCall
  /\ auth = NoAuth
  /\ client = NoClient

\* The client sends its next request.
BeginScript ==
  /\ client.step < Len(Script(client.responses))
  /\ BeginFrom(1, {Script(client.responses)[client.step + 1]})

\* The client receives the response; the connection serves its next request.
Respond ==
  /\ procs[1].pc = "done"
  /\ client' = [step |-> client.step + 1,
                responses |-> Append(client.responses,
                                     [status |-> procs[1].status,
                                      body |-> ResponseBody(procs[1])])]
  /\ procs' = [procs EXCEPT ![1] = IdleProc]
  /\ UNCHANGED <<usersFilePath, writeQueue, disk, dirExists, fsErr, idsIssued, pw, auth>>

NextScript ==
  \/ BeginScript
  \/ Respond
  \/ \E p \in Procs :
       \/ AwaitWriteQueue(p)
       \/ EnsureMkdir(p)
       \/ EnsureAccess(p)
       \/ EnsureWriteFile(p)
       \/ ReadFile(p)
       \/ JobStart(p)
       \/ JobOpen(p)
       \/ JobPartial(p)
       \/ JobData(p)

SpecScript == InitScript /\ [][NextScript]_vars

\* ------------------------------------------------------------------------
\* C26: on an empty store, Register(a@x, secret1) succeeds; a second
\* Register(a@x, secret2) fails with 409; Login(a@x, wrong) fails with 401;
\* Login(a@x, secret1) succeeds with the id of the registration;
\* GetProfile(id) returns language en, currencyType USD, phone and country
\* empty; after UpdateProfile(id, {language: es}), GetProfile(id) returns
\* language es and every other field as before.
\* ------------------------------------------------------------------------
C26_Scenario ==
  LET r == client.responses
      n == client.step
  IN /\ n >= 1 => (r[1].status = 201 /\ r[1].body.email = EmailA)
     /\ n >= 2 => r[2].status = 409
     /\ n >= 3 => r[3].status = 401
     /\ n >= 4 => (r[4].status = 200 /\ r[4].body.id = r[1].body.id)
     /\ n >= 5 => /\ r[5].status = 200
                  /\ r[5].body.id = r[1].body.id
                  /\ r[5].body.language = "en"
                  /\ r[5].body.currencyType = "USD"
                  /\ r[5].body.phone = ""
                  /\ r[5].body.country = ""
     /\ n >= 6 => (r[6].status = 200 /\ r[6].body.language = "es")
     /\ n >= 7 => /\ r[7].status = 200
                  /\ r[7].body = [r[5].body EXCEPT !.language = "es"]

\* The client has received its seventh response.
C26_Witness ==
  /\ client.step = Len(Script(client.responses))
  /\ client.responses[7].body.language = "es"
  /\ Len(Persisted) = 1

\* The text has no blank at either end and no capital letter.
IsNormalForm(text) ==
  /\ text # <<>> => (text[1] # " " /\ text[Len(text)] # " ")
  /\ \A i \in 1..Len(text) : text[i] \notin {"A", "B", "C", "X"}

\* The array that p loaded has a record with this email.
LoadedEmail(p, email) ==
  \E i \in 1..Len(procs[p].readResult) : procs[p].readResult[i].email = email

\* ------------------------------------------------------------------------
\* C27: every email in the persisted collection is in normalized form
\* (trimmed, lower-cased): Register and UpdateProfile store the normalized
\* form of their input, and Register and Login look the normalized form up,
\* so that " A@X " denotes the account a@x.
\* ------------------------------------------------------------------------
C27_NormalizedEmails ==
  /\ \A path \in Paths : \A u \in Range(ParseUsers(disk[path])) : IsNormalForm(u.email)
  /\ \A p \in Procs : \A u \in Range(procs[p].users) : IsNormalForm(u.email)
  /\ \A p \in Procs :
       (Done(p) /\ HasRead(p) /\ procs[p].req.email = EmailARaw /\ LoadedEmail(p, EmailA))
       => /\ IsRegister(p) => procs[p].status = 409
          /\ IsLogin(p) => procs[p].status = 200
  /\ \A p \in Procs :
       (IsUpdate(p) /\ Wrote(p) /\ Done(p) /\ procs[p].req.body = EmailBody(EmailCRaw))
       => procs[p].saved[FindById(procs[p].saved, procs[p].req.id)].email = EmailC

\* "C@x " was stored as c@x for the second account, and a login of " A@X "
\* was accepted as the first account.
C27_Witness ==
  \E p, q \in Procs :
    /\ IsUpdate(p) /\ Wrote(p) /\ Done(p) /\ procs[p].req.body = EmailBody(EmailCRaw)
    /\ Persisted[FindById(Persisted, 2)].email = EmailC
    /\ IsLogin(q) /\ Done(q) /\ procs[q].req.email = EmailARaw
    /\ procs[q].status = 200
    /\ ResponseBody(procs[q]).id = 1

\* ------------------------------------------------------------------------
\* The profile routes behind optionalAuth: a token is issued, time passes,
\* the token may be tampered with, and the requests to /profile/1 carry it,
\* or carry no token, one request after the other.
\* ------------------------------------------------------------------------
GuardedReqs ==
  {Req("getProfile", <<>>, "", 1, NoBody),
   Req("updateProfile", <<>>, "", 1, FieldBody("phone", "555"))}

InitGuarded ==
  /\ Init
  /\ fsErr[DEFAULT_USER_DB_PATH] = "ok"
  /\ disk[DEFAULT_USER_DB_PATH] \in {Absent, JSONstringify(<<User1, User2>>)}
  /\ dirExists[DEFAULT_USER_DB_PATH]

\* optionalAuth runs on the Authorization header of the requests.
PresentToProfile ==
  /\ auth.state = "issued"
  /\ \E form \in {"absent", "scheme only", "bearer"} :
       LET header == Header(form, IF form = "bearer" THEN auth.token ELSE NoToken)
       IN auth' = [auth EXCEPT !.state = "checked", !.middleware = "optionalAuth",
                               !.header = header,
                               !.result = optionalAuth(header, auth.clock)]
  /\ UNCHANGED <<serverVars, pw, client>>

\* A request to a profile route arrives: when the middleware has called
\* next() the handler runs up to `await writeQueue`, when it has sent a
\* response the request ends with it.
BeginGuarded(p) ==
  /\ auth.state = "checked"
  /\ \A q \in Procs : procs[q].pc \in {"idle", "done"}
  /\ IF auth.result.status = 0
     THEN BeginFrom(p, GuardedReqs)
     ELSE /\ procs[p].pc = "idle"
          /\ \A q \in Procs : q < p => procs[q].pc # "idle"
          /\ \E r \in GuardedReqs :
               procs' = [procs EXCEPT ![p] =
                 Finish([procs[p] EXCEPT !.req = r], auth.result.status, "none")]
          /\ UNCHANGED <<usersFilePath, writeQueue, disk, dirExists, fsErr, idsIssued,
                         pw, auth, client>>

NextGuarded ==
  \/ IssueToken
  \/ Tick
  \/ TamperToken
  \/ PresentToProfile
  \/ \E p \in Procs :
       \/ BeginGuarded(p)
       \/ AwaitWriteQueue(p)
       \/ EnsureMkdir(p)
       \/ EnsureAccess(p)
       \/ EnsureWriteFile(p)
       \/ ReadFile(p)
       \/ JobStart(p)
       \/ JobOpen(p)
       \/ JobPartial(p)
       \/ JobData(p)

SpecGuarded == InitGuarded /\ [][NextGuarded]_vars

\* What the profile handlers answer to the request of p on the array it
\* loaded when the request carries no Authorization header: the status and,
\* for an update, the collection saved.
Anonymous(p) ==
  LET me == procs[p]
      i == FirstIndex({k \in 1..Len(me.readResult) : me.readResult[k].id = me.req.id})
  IN IF i = 0 THEN [status |-> 404, saved |-> <<>>]
     ELSE IF IsGetProfile(p) THEN [status |-> 200, saved |-> <<>>]
     ELSE [status |-> 200,
           saved |-> [me.readResult EXCEPT
                        ![i].profile = [f \in ProfileFields |->
                           IF f \in me.req.body.fields THEN me.req.body.val[f]
                           ELSE me.readResult[i].profile[f]]]]

InitSound ==
  /\ InitQueue
  /\ fsErr[DEFAULT_USER_DB_PATH] = "ok"

\* ReadFile(p) is enabled exactly while the fs.readFile of p is in flight, and
\* it always changes procs[p].pc.
ReadInFlight(p) == procs[p].pc = "rd_file"

\* Weak fairness of every continuation.  For ReadFile the condition
\* WF_vars(ReadFile(p)) is written in its defining form
\* []<>(~ENABLED <<A>>_vars) \/ []<><<A>>_vars, with the enabling condition
\* given by ReadInFlight(p).
Fairness ==
  \A p \in Procs :
    /\ WF_vars(AwaitWriteQueue(p))
    /\ WF_vars(EnsureMkdir(p))
    /\ WF_vars(EnsureAccess(p))
    /\ WF_vars(EnsureWriteFile(p))
    /\ []<>(~ReadInFlight(p)) \/ []<><<ReadFile(p)>>_vars
    /\ WF_vars(JobStart(p))
    /\ WF_vars(JobOpen(p))
    /\ WF_vars(JobData(p))

SpecFair == InitSound /\ [][NextRecords]_vars /\ Fairness

\* The request of p ended in a business failure.
BusinessFailure(p) == Done(p) /\ procs[p].status \in {401, 404, 409}

\* ------------------------------------------------------------------------
\* C29: under fair scheduling and with no storage errors, every Register,
\* Login, GetProfile and UpdateProfile request that arrived eventually ends
\* with a response; a request that ends in a business failure (409, 401,
\* 404) has queued no write, and the step in which it ends leaves the files
\* and the queue as they are, so that nothing behind it waits for it.
\* ------------------------------------------------------------------------
C29_EveryRequestCompletes ==
  /\ \A p \in Procs : (procs[p].pc # "idle") ~> (Done(p) /\ procs[p].status # 0)
  /\ [](\A p \in Procs : BusinessFailure(p) => procs[p].job = 0)
  /\ [][\A p \in Procs :
          (~Done(p) /\ procs'[p].pc = "done" /\ procs'[p].status \in {401, 404, 409})
          => (disk' = disk /\ writeQueue' = writeQueue)]_vars

\* A profile read was answered 404, and the registration that arrived after
\* it was saved and answered 201.
C29_Witness ==
  \E p, q \in Procs :
    /\ p < q
    /\ BusinessFailure(p) /\ procs[p].status = 404 /\ procs[p].job = 0
    /\ IsRegister(q) /\ Done(q) /\ procs[q].status = 201 /\ Wrote(q)

\* ------------------------------------------------------------------------
\* The active path after the fallback of ensureUsersFile or of the queued
\* write.
\* ------------------------------------------------------------------------
Switched == usersFilePath = TMP_USER_DB_PATH

\* The step completes the fs.readFile of p with content that parses, so that
\* readUsers returns it.
ReturnsContent(p) ==
  /\ ReadInFlight(p)
  /\ procs'[p].pc # "rd_file"
  /\ disk[procs[p].ioPath] # Absent
  /\ ~ParseThrows(disk[procs[p].ioPath])

\* ------------------------------------------------------------------------
\* C30: once the active path is the scratch path, no readUsers call returns
\* content that was read from the primary file, and no write changes the
\* primary file.
\* ------------------------------------------------------------------------
C30_ScratchAuthoritative ==
  [][Switched =>
       /\ \A p \in Procs :
            ReturnsContent(p) => procs[p].ioPath # DEFAULT_USER_DB_PATH
       /\ disk'[DEFAULT_USER_DB_PATH] = disk[DEFAULT_USER_DB_PATH]]_vars

\* The step completes the fs.writeFile(currentPath, "[]") of the
\* ensureUsersFile call of p, and the write succeeds.
CreatesFile(p) ==
  /\ procs[p].pc = "ens_write"
  /\ procs'[p].pc # "ens_write"
  /\ WriteError(procs[p].currentPath) = "ok"

\* ------------------------------------------------------------------------
\* C31: the write of "[]" by ensureUsersFile never lands on a file that
\* holds a non-empty collection.
\* ------------------------------------------------------------------------
C31_CreateKeepsRecords ==
  [][\A p \in Procs :
       CreatesFile(p) => ParseUsers(disk[procs[p].currentPath]) = <<>>]_vars

\* ------------------------------------------------------------------------
\* A client that saves a phone number and, once it has the response, reads
\* the profile back, while another client's request is served.
\* ------------------------------------------------------------------------
ReadBack ==
  <<Req("updateProfile", <<>>, "", 1, FieldBody("phone", "555")),
    Req("getProfile", <<>>, "", 1, NoBody)>>

OtherReqs ==
  {Req("updateProfile", <<>>, "", 1, FieldBody("country", "France")),
   Req("register", EmailC, "secret1", 0, NoBody),
   Req("getProfile", <<>>, "", 2, NoBody)}

InitReadBack ==
  /\ Init
  /\ fsErr[DEFAULT_USER_DB_PATH] \in {"ok", "EROFS"}
  /\ disk[DEFAULT_USER_DB_PATH] = JSONstringify(<<User1, User2>>)

\* The client sends its next request.
BeginReadBack ==
  /\ client.step < Len(ReadBack)
  /\ BeginFrom(1, {ReadBack[client.step + 1]})

\* The request of the other client arrives.
BeginOther == BeginFrom(2, OtherReqs)

NextReadBack ==
  \/ BeginReadBack
  \/ BeginOther
  \/ Respond
  \/ \E p \in Procs :
       \/ AwaitWriteQueue(p)
       \/ EnsureMkdir(p)
       \/ EnsureAccess(p)
       \/ EnsureWriteFile(p)
       \/ ReadFile(p)
       \/ JobStart(p)
       \/ JobOpen(p)
       \/ JobPartial(p)
       \/ JobData(p)

SpecReadBack == InitReadBack /\ [][NextReadBack]_vars

\* ------------------------------------------------------------------------
\* C32: a success response to Register or UpdateProfile is sent only after
\* the call's own collection write was applied, and a request issued after
\* the response was received reads a collection that holds the effect: the
\* profile read back after the 200 of the phone update shows the phone.
\* ------------------------------------------------------------------------
C32_ReadYourWrite ==
  /\ \A p \in Procs :
       (Done(p) /\ procs[p].status \in {200, 201} /\ (IsRegister(p) \/ IsUpdate(p)))
       => Wrote(p)
  /\ (client.step >= 2 /\ client.responses[1].status = 200)
       => /\ client.responses[2].status = 200
          /\ client.responses[2].body.phone = "555"

\* The queued write numbered j has failed.
Failed(j) == writeQueue[j].state = "rejected"

\* The request of p arrived after the write numbered j was queued, or queued
\* its own write after it.
Behind(p, j) == procs[p].awaited >= j \/ procs[p].job > j

\* ------------------------------------------------------------------------
\* C33: once a queued collection write has failed, the write queue stays
\* failed: every promise queued behind it rejects with the same error, no
\* write behind it is applied to the file, and every request behind it that
\* reaches the store ends with status 500 and that error.
\* ------------------------------------------------------------------------
C33_QueueStaysFailed ==
  \A j \in 1..Len(writeQueue) :
    Failed(j) =>
      /\ \A i \in j..Len(writeQueue) :
           /\ writeQueue[i].state \in {"pending", "rejected"}
           /\ Failed(i) => writeQueue[i].error = writeQueue[j].error
      /\ \A p \in Procs :
           Behind(p, j) =>
             /\ procs[p].pc \notin {"job_open", "job_data"}
             /\ procs[p].saved = <<>>
             /\ Done(p) => (procs[p].status = 500 /\ procs[p].error = writeQueue[j].error)

\* A write failed on the scratch path after the fallback, and the request
\* that arrived afterwards ended with that error.
C33_Witness ==
  \E p, q \in Procs :
    /\ procs[p].job # 0 /\ Failed(procs[p].job)
    /\ usersFilePath = TMP_USER_DB_PATH
    /\ procs[q].awaited >= procs[p].job
    /\ Done(q) /\ procs[q].status = 500
    /\ procs[q].error = writeQueue[procs[p].job].error

\* The step is the failure, with a read-only error, of the fs.writeFile of
\* p's queued write on the primary path.
PrimaryWriteFails(p) ==
  /\ procs[p].pc = "job_open"
  /\ procs[p].ioPath = DEFAULT_USER_DB_PATH
  /\ isReadonlyError(WriteError(DEFAULT_USER_DB_PATH))
  /\ procs'[p] # procs[p]

\* The step completes the write that p repeats on the scratch path.
FallbackWriteDone(p) ==
  /\ procs[p].pc = "job_data"
  /\ procs[p].inCatch
  /\ procs'[p].pc = "done"

\* ------------------------------------------------------------------------
\* C34: when a collection write fails on the primary path with a read-only
\* error, the same call switches to the scratch path and goes on to write
\* there; when it succeeds, the scratch file holds exactly the collection it
\* was asked to save, with every record it had read from the primary file,
\* and the primary file is as it was.
\* ------------------------------------------------------------------------
C34_FallbackCarriesAll ==
  [][\A p \in Procs :
       /\ PrimaryWriteFails(p) =>
            /\ usersFilePath' = TMP_USER_DB_PATH
            /\ procs'[p].pc = "ens_mkdir"
            /\ procs'[p].currentPath = TMP_USER_DB_PATH
            /\ procs'[p].users = procs[p].users
            /\ writeQueue' = writeQueue
       /\ FallbackWriteDone(p) =>
            /\ usersFilePath' = TMP_USER_DB_PATH
            /\ procs'[p].status \in {200, 201}
            /\ disk'[TMP_USER_DB_PATH] = JSONstringify(procs[p].users)
            /\ \A i \in 1..Len(procs[p].readResult) :
                 \E k \in 1..Len(ParseUsers(disk'[TMP_USER_DB_PATH])) :
                   ParseUsers(disk'[TMP_USER_DB_PATH])[k].id = procs[p].readResult[i].id
            /\ disk'[DEFAULT_USER_DB_PATH] = disk[DEFAULT_USER_DB_PATH]]_vars

\* A registration alone on a read-only primary file with two accounts was
\* answered 201 and the scratch file holds the three records.
C34_Witness ==
  \E p \in Procs :
    /\ \A q \in Procs \ {p} : procs[q].pc = "idle"
    /\ isReadonlyError(fsErr[DEFAULT_USER_DB_PATH])
    /\ disk[DEFAULT_USER_DB_PATH] = JSONstringify(<<User1, User2>>)
    /\ IsRegister(p) /\ Done(p) /\ procs[p].status = 201
    /\ usersFilePath = TMP_USER_DB_PATH
    /\ Len(ParseUsers(disk[TMP_USER_DB_PATH])) = 3
    /\ disk[TMP_USER_DB_PATH] = JSONstringify(procs[p].saved)

\* The error with which the pending storage operation of p fails: that of
\* its ensureUsersFile call, or that of the fs.writeFile of its queued write;
\* "ok" when the operation succeeds.
StorageError(p) ==
  IF procs[p].pc = "job_open" THEN WriteError(procs[p].ioPath) ELSE EnsureError(p)

\* ------------------------------------------------------------------------
\* C35: only a read-only error (EROFS, EPERM) raised while the active path
\* is the primary path triggers the fallback: any other storage error, and
\* any error raised while the active path is the scratch path already,
\* leaves the active path unchanged and is propagated to the caller, whose
\* request ends with it.
\* ------------------------------------------------------------------------
C35_OnlyReadonlyOnPrimary ==
  [][\A p \in Procs :
       LET code == StorageError(p) IN
       (code # "ok" /\ procs'[p] # procs[p]) =>
         /\ usersFilePath' # usersFilePath
              => (isReadonlyError(code) /\ usersFilePath = DEFAULT_USER_DB_PATH)
         /\ (~isReadonlyError(code) \/ usersFilePath = TMP_USER_DB_PATH)
              => /\ usersFilePath' = usersFilePath
                 /\ procs'[p].pc = "done"
                 /\ procs'[p].status = 500
                 /\ procs'[p].error = code]_vars

\* The step is one of the handler of p, a Login or GetProfile call.
ReadOnlyCallSteps(p) ==
  /\ IsLogin(p) \/ IsGetProfile(p)
  /\ procs'[p] # procs[p]

\* ------------------------------------------------------------------------
\* C36: Login and GetProfile never change the records of the persisted
\* collection: no step of such a call changes the collection that a file
\* holds; creating an absent file as the empty array changes no record.
\* ------------------------------------------------------------------------
C36_ReadsLeaveRecords ==
  [][\A p \in Procs :
       ReadOnlyCallSteps(p)
       => \A path \in Paths : ParseUsers(disk'[path]) = ParseUsers(disk[path])]_vars

====
